---------------------------- MODULE Spec2Model ----------------------------
(***************************************************************************)
(* A state-machine model of the trading-cursor repository: the historical  *)
(* replay (Backtester), the live order loop (LiveTrader), the swing trader *)
(* (SwingTrader with EntryStrategy / ExitStrategy / RiskManager) and the   *)
(* signal checker (ForwardTester).                                         *)
(*                                                                         *)
(* Each run of the model is one run of one of the repository's entry       *)
(* scripts, or one direct call of one of its functions with arguments      *)
(* drawn in Init; the variable prog says which.  Prices and money are      *)
(* Python floats in the source; the model computes with exact rationals    *)
(* [n |-> numerator, d |-> denominator] in lowest terms, so every          *)
(* comparison is the comparison of the real numbers the floats stand for.  *)
(***************************************************************************)
EXTENDS Integers, Sequences, FiniteSets, TLC

(***************************************************************************)
(* Exact rational arithmetic (the source's float +, -, *, /, <, <=).       *)
(***************************************************************************)
RECURSIVE GCD(_, _)
GCD(a, b) ==
    IF b = 0 THEN a ELSE GCD(b, a % b)

Abs(x) ==
    IF x < 0 THEN -x ELSE x

\* n/d in lowest terms, d > 0
Rat(n, d) ==
    LET g == GCD(Abs(n), d) IN [n |-> n \div g, d |-> d \div g]

R(k) ==
    [n |-> k, d |-> 1]

RNeg(a) ==
    [n |-> -a.n, d |-> a.d]

RAdd(a, b) ==
    LET g == GCD(a.d, b.d)
    IN  Rat(a.n * (b.d \div g) + b.n * (a.d \div g), (a.d \div g) * b.d)

RSub(a, b) ==
    RAdd(a, RNeg(b))

RMul(a, b) ==
    LET g1 == GCD(Abs(a.n), b.d)
        g2 == GCD(Abs(b.n), a.d)
    IN  Rat((a.n \div g1) * (b.n \div g2), (a.d \div g2) * (b.d \div g1))

\* 1/b, b # 0
RInv(b) ==
    IF b.n > 0 THEN [n |-> b.d, d |-> b.n] ELSE [n |-> -b.d, d |-> -b.n]

RDiv(a, b) ==
    RMul(a, RInv(b))

RLeq(a, b) ==
    LET g == GCD(a.d, b.d)
    IN  a.n * (b.d \div g) <= b.n * (a.d \div g)

RLt(a, b) ==
    ~RLeq(b, a)

RMax(a, b) ==
    IF RLeq(a, b) THEN b ELSE a

RAbs(a) ==
    [n |-> Abs(a.n), d |-> a.d]

\* Python int(x): truncation toward zero
RInt(a) ==
    IF a.n >= 0 THEN a.n \div a.d ELSE -((-a.n) \div a.d)

\* Python's None where a price or a frame is expected
None ==
    [n |-> 0, d |-> 0]

(***************************************************************************)
(* Bounds of the model.                                                    *)
(***************************************************************************)
\* market prices are whole dollars in MinPrice..MaxPrice
MinPrice == 98
MaxPrice == 103
\* bars replayed by one Backtester.run, over all its symbols
MaxBars == 4
\* cycles of the live loop
MaxCycles == 3
\* answers the data API has ready for the attempts of one get_current_data
MaxFetchOutcomes == 4
\* answers the broker has ready for the status polls of one execute_trade
MaxPollOutcomes == 6

\* the symbols handed to the run
symbols ==
    <<"AAPL">>

Symbols ==
    {symbols[i] : i \in 1..Len(symbols)}

Prices ==
    {R(p) : p \in MinPrice..MaxPrice}

\* values of a moving average: two below and one at the top of the market prices
\* (a rolling mean of earlier closes is not tied to the latest bar)
MALevels ==
    {R(MinPrice - 1), R(MinPrice), R(MaxPrice)}

\* the entry price of the directly called functions' scenarios, and the
\* prices around it: 5 and 2 below, 3, 5 and 11 above
LadderEntry == 100

CallPrices ==
    {R(LadderEntry - 5), R(LadderEntry - 2), R(LadderEntry), R(LadderEntry + 3),
     R(LadderEntry + 5), R(LadderEntry + 11)}

\* capitals the backtest sizer is called with: a dollar, and the script's
SmallCapital == 1

\* latest prices the live engine is shown: the bottom, an entry level two
\* dollars above it, and the top of the market prices
LivePrices ==
    {R(MinPrice), R(MinPrice + 2), R(MaxPrice)}

(***************************************************************************)
(* State.                                                                  *)
(***************************************************************************)
VARIABLES
    prog,            \* the entry script this run executes
    risk_per_trade,  \* Backtester.risk_per_trade (constructor argument)
    capital,         \* Backtester.capital
    all_trades,      \* Backtester.all_trades
    bt,              \* the locals of run_single_symbol
    btI,             \* bars processed so far by the replay loops of the run
    btPrev,          \* df['Close'].iloc[i-1]
    btObs,           \* what the last processed bar was and what it did
    btRun,           \* the locals of Backtester.run and the symbol it stands at
    opens,           \* per symbol: positions opened since the symbol was last flat
    brokerPos,       \* the broker's positions (api.list_positions)
    brokerOrders,    \* orders open at the broker (submitted, not yet filled)
    fillReported,    \* per symbol and side: orders the engine saw reported filled
    last_known_positions, \* LiveTrader.last_known_positions
    livePc,          \* where LiveTrader.run stands in its cycle
    liveCycle,       \* cycles of LiveTrader.run started so far
    livePositions,   \* run's local positions (the list fetched at the cycle's start)
    liveIdx,         \* index of the entry scan in symbols
    liveTrack,       \* per symbol: stop applied and highest price seen for the open position
    liveObs,         \* what the last manage_positions pass decided
    liveMain,        \* run_live_trader.main: its options, its monitor thread, its reports
    liveClock,       \* run's locals clock and now, as this pass of the loop sampled them
    rmPositions,     \* RiskManager.positions of the SwingTrader
    swingPc,         \* where SwingTrader.run stands in its loop
    swingObs,        \* the last ExitSignal of SwingTrader.manage_positions and what became of it
    call             \* a direct call of one function: its name, arguments and result

btVars ==
    <<capital, all_trades, bt, btI, btPrev, btObs, btRun>>

brokerVars ==
    <<brokerPos, brokerOrders, fillReported>>

liveVars ==
    <<last_known_positions, livePc, liveCycle, livePositions, liveIdx, liveTrack, liveObs,
      liveMain, liveClock>>

swingVars ==
    <<rmPositions, swingPc, swingObs>>

vars ==
    <<prog, risk_per_trade, opens, btVars, brokerVars, liveVars, swingVars, call>>

(***************************************************************************)
(* Backtester (src/backtesting/backtest.py).                               *)
(***************************************************************************)
\* run_backtest.py: INITIAL_CAPITAL
INITIAL_CAPITAL == 1000

\* the first symbols of the list run_backtest.py hands to Backtester.run
BTSymbols ==
    <<"AAPL", "MSFT">>

\* the symbols any of the runs trades
AllSymbols ==
    Symbols \cup {BTSymbols[i] : i \in 1..Len(BTSymbols)}

\* risk levels a Backtester is built with: the default and run_backtest.py's
RiskLevels ==
    {Rat(2, 100), Rat(3, 100)}

\* run_backtest.py: risk_levels = [0.03], the risk its Backtester is built with
risk_levels ==
    {Rat(3, 100)}

\* run_single_symbol: stop_loss_pct = 2.0
stop_loss_pct == 2

\* run_single_symbol: take_profit = position * 1.04
TakeProfitFactor ==
    Rat(104, 100)

\* run_single_symbol: the entry threshold of price_change, 0.3 (percent)
EntryChangePct ==
    Rat(3, 10)

\* the locals of run_single_symbol as set before the loop
BTLocals0 ==
    [position |-> None, position_size |-> R(0), trailing_stop |-> R(0),
     take_profit |-> R(0), trades |-> 0, wins |-> 0, losses |-> 0,
     total_profit |-> R(0), highest_price |-> R(0)]

BTNoObs ==
    [event |-> "none", low |-> None, high |-> None, close |-> None,
     stop |-> None, take_profit |-> None]

\* price_change = (current_price - prev_price) / prev_price * 100
BTPriceChange(current_price, prev_price) ==
    RMul(RDiv(RSub(current_price, prev_price), prev_price), R(100))

\* the entry condition of run_single_symbol
BTEntryCondition(current_price, prev_price, ma10, ma20) ==
    /\ RLt(EntryChangePct, BTPriceChange(current_price, prev_price))
    /\ RLt(ma10, current_price)
    /\ RLt(ma20, ma10)

\* stop_loss_price = position * (1 - stop_loss_pct/100)
BTStopLossPrice(position) ==
    RMul(position, RSub(R(1), Rat(stop_loss_pct, 100)))

\* a sizing that divides the risk amount by the price, not by the stop distance
BTInlineSizeByPrice(cap, risk, position) ==
    RDiv(RMul(cap, risk), position)

\* the inline sizing: position_size = risk_amount / (position - stop_loss_price)
BTInlineSize(cap, risk, position) ==
    RDiv(RMul(cap, risk), RSub(position, BTStopLossPrice(position)))

\* an exit decision that fills a stop-loss exit at the bar's low
BTExitDecisionAtLow(current_low, current_high, trailing_stop, take_profit) ==
    IF RLeq(current_low, trailing_stop) THEN <<current_low, "Stop Loss">>
    ELSE IF RLeq(take_profit, current_high) THEN <<take_profit, "Take Profit">>
    ELSE <<None, "">>

\* the exit decision: <<exit_price, exit_reason>>, exit_price = None for no exit
BTExitDecision(current_low, current_high, trailing_stop, take_profit) ==
    IF RLeq(current_low, trailing_stop) THEN <<trailing_stop, "Stop Loss">>
    ELSE IF RLeq(take_profit, current_high) THEN <<take_profit, "Take Profit">>
    ELSE <<None, "">>

\* a trade profit that leaves the position size out
BTTradeProfitPerShare(exit_price, position, position_size) ==
    RSub(exit_price, position)

\* trade_profit = (exit_price - position) * position_size
BTTradeProfit(exit_price, position, position_size) ==
    RMul(RSub(exit_price, position), position_size)

\* a recording that overwrites the last record instead of appending
BTRecordTradeOverLast(trades, trade) ==
    IF trades = <<>> THEN <<trade>>
    ELSE [trades EXCEPT ![Len(trades)] = trade]

\* self.all_trades.append(trade)
BTRecordTrade(trades, trade) ==
    Append(trades, trade)

\* the locals of Backtester.run as set before its loop over the symbols
BTRun0 ==
    [pc |-> "symbol", idx |-> 1, results |-> <<>>,
     peak_capital |-> R(INITIAL_CAPITAL), max_drawdown |-> R(0)]

\* what run_single_symbol returns for too little data, and after an exception
BTEmptyResult(symbol) ==
    [symbol |-> symbol, trades |-> 0, wins |-> 0, losses |-> 0, profit |-> R(0)]

\* run, lines 364-379: what the loop does with one symbol's result
BTAfterSymbol(run, symbol_result, cap) ==
    LET peak == IF RLt(run.peak_capital, cap) THEN cap ELSE run.peak_capital
        current_drawdown == RMul(RDiv(RSub(peak, cap), peak), R(100))
    IN  [run EXCEPT
            !.results = Append(@, symbol_result),
            !.peak_capital = peak,
            !.max_drawdown = RMax(@, current_drawdown),
            !.idx = @ + 1,
            !.pc = IF run.idx = Len(BTSymbols) THEN "done" ELSE "symbol"]

\* run_single_symbol up to the replay loop, for the symbol run stands at: too
\* little data returns at once, and run books the empty result
BTStartSymbol ==
    /\ prog = "run_backtest"
    /\ btRun.pc = "symbol"
    /\ \/ \* fetch_data returned None, or fewer than 20 rows
          /\ btRun' = BTAfterSymbol(btRun, BTEmptyResult(BTSymbols[btRun.idx]), capital)
          /\ btObs' = [BTNoObs EXCEPT !.event = "skipped"]
          /\ UNCHANGED <<bt, btPrev>>
       \/ /\ btRun' = [btRun EXCEPT !.pc = "replay"]
          /\ bt' = BTLocals0
          /\ btObs' = BTNoObs
          /\ btPrev' \in Prices
    /\ UNCHANGED <<call, prog, risk_per_trade, opens, capital, all_trades, btI,
                   brokerVars, liveVars, swingVars>>

\* the replay loop ran out of bars: run_single_symbol returns its counts, its
\* locals are gone with the return, and run books the counts
BTEndSymbol ==
    /\ prog = "run_backtest"
    /\ btRun.pc = "replay"
    /\ btRun' = BTAfterSymbol(btRun,
                    [symbol |-> BTSymbols[btRun.idx], trades |-> bt.trades,
                     wins |-> bt.wins, losses |-> bt.losses,
                     profit |-> bt.total_profit], capital)
    /\ btObs' = [BTNoObs EXCEPT !.event = "end"]
    /\ bt' = BTLocals0
    /\ btPrev' = R(MinPrice)
    /\ UNCHANGED <<call, prog, risk_per_trade, opens, capital, all_trades, btI,
                   brokerVars, liveVars, swingVars>>

\* one iteration of the replay loop that raises while it reads the bar: the
\* handler of the loop body prints the error and continues with the next bar
BTBarError ==
    /\ prog = "run_backtest"
    /\ btRun.pc = "replay"
    /\ btI < MaxBars
    /\ btI' = btI + 1
    /\ btObs' = [BTNoObs EXCEPT !.event = "error"]
    /\ btPrev' \in Prices
    /\ UNCHANGED <<call, prog, risk_per_trade, opens, capital, all_trades, bt, btRun,
                   brokerVars, liveVars, swingVars>>

\* one iteration of the replay loop while position is None
BTFlatBar ==
    /\ prog = "run_backtest"
    /\ btRun.pc = "replay"
    /\ btI < MaxBars
    /\ bt.position = None
    /\ \E current_price \in Prices, ma10 \in MALevels, ma20 \in MALevels :
        /\ IF BTEntryCondition(current_price, btPrev, ma10, ma20)
           THEN /\ bt' = [bt EXCEPT
                      !.position = current_price,
                      !.position_size = BTInlineSize(capital, risk_per_trade, current_price),
                      !.trailing_stop = BTStopLossPrice(current_price),
                      !.take_profit = RMul(current_price, TakeProfitFactor),
                      !.trades = @ + 1]
                /\ btObs' = [BTNoObs EXCEPT !.event = "entry", !.close = current_price]
                /\ opens' = [opens EXCEPT ![BTSymbols[btRun.idx]] = @ + 1]
           ELSE /\ bt' = bt
                /\ btObs' = [BTNoObs EXCEPT !.event = "flat", !.close = current_price]
                /\ opens' = opens
        /\ btPrev' = current_price
    /\ btI' = btI + 1
    /\ UNCHANGED <<call, prog, risk_per_trade, capital, all_trades, btRun, brokerVars,
                   liveVars, swingVars>>

\* one iteration of the replay loop while a position is open
BTOpenBar ==
    /\ prog = "run_backtest"
    /\ btRun.pc = "replay"
    /\ btI < MaxBars
    /\ bt.position # None
    /\ \E current_low \in Prices, current_price \in Prices, current_high \in Prices :
        /\ RLeq(current_low, current_price)
        /\ RLeq(current_price, current_high)
        /\ LET highest == IF RLt(bt.highest_price, current_high)
                          THEN current_high ELSE bt.highest_price
               dec == BTExitDecision(current_low, current_high,
                                     bt.trailing_stop, bt.take_profit)
               exit_price == dec[1]
               trade_profit == BTTradeProfit(exit_price, bt.position, bt.position_size)
               obs == [event |-> "hold", low |-> current_low, high |-> current_high,
                       close |-> current_price, stop |-> bt.trailing_stop,
                       take_profit |-> bt.take_profit]
           IN  IF exit_price # None
               THEN /\ capital' = RAdd(capital, trade_profit)
                    /\ all_trades' = BTRecordTrade(all_trades,
                          [entry |-> bt.position, exit |-> exit_price,
                           size |-> bt.position_size, stop |-> bt.trailing_stop,
                           take_profit |-> bt.take_profit, reason |-> dec[2],
                           profit |-> trade_profit,
                           capital_after |-> RAdd(capital, trade_profit)])
                    /\ bt' = [bt EXCEPT
                          !.total_profit = RAdd(@, trade_profit),
                          !.wins = IF trade_profit.n > 0 THEN @ + 1 ELSE @,
                          !.losses = IF trade_profit.n > 0 THEN @ ELSE @ + 1,
                          !.position = None,
                          !.trailing_stop = R(0),
                          !.take_profit = R(0),
                          !.highest_price = R(0)]
                    /\ btObs' = [obs EXCEPT !.event = "exit"]
                    /\ opens' = [opens EXCEPT ![BTSymbols[btRun.idx]] = 0]
               ELSE /\ bt' = [bt EXCEPT !.highest_price = highest]
                    /\ btObs' = obs
                    /\ UNCHANGED <<capital, all_trades, opens>>
        /\ btPrev' = current_price
    /\ btI' = btI + 1
    /\ UNCHANGED <<call, prog, risk_per_trade, btRun, brokerVars, liveVars, swingVars>>

(***************************************************************************)
(* The replay as a function of the bars: what a Backtester built by        *)
(* __init__ holds after run has replayed one tape of bars per symbol.      *)
(***************************************************************************)
\* no Backtester was built before
NoBacktester ==
    [initial_capital |-> None, capital |-> None, risk_per_trade |-> None,
     all_trades |-> <<>>]

\* a constructor whose capital is the one the Backtester built before ended with
BacktesterSharedCapital(earlier, initial_capital, risk) ==
    [initial_capital |-> initial_capital,
     capital |-> IF earlier = NoBacktester THEN initial_capital ELSE earlier.capital,
     risk_per_trade |-> risk, all_trades |-> <<>>]

\* Backtester.__init__: every attribute is set on the instance from the
\* arguments; nothing is taken from a Backtester built earlier in the process
Backtester(earlier, initial_capital, risk) ==
    [initial_capital |-> initial_capital, capital |-> initial_capital,
     risk_per_trade |-> risk, all_trades |-> <<>>]

\* one iteration of run_single_symbol's loop over a bar of the tape; st holds
\* the Backtester, the locals of run_single_symbol and the previous close
BTBar(st, bar) ==
    IF bar.raises
    THEN [st EXCEPT !.prev = bar.Close]
    ELSE IF st.locals.position = None
    THEN IF BTEntryCondition(bar.Close, st.prev, bar.MA_10, bar.MA_20)
         THEN [st EXCEPT
                  !.prev = bar.Close,
                  !.locals.position = bar.Close,
                  !.locals.position_size =
                      BTInlineSize(st.self.capital, st.self.risk_per_trade, bar.Close),
                  !.locals.trailing_stop = BTStopLossPrice(bar.Close),
                  !.locals.take_profit = RMul(bar.Close, TakeProfitFactor),
                  !.locals.trades = @ + 1]
         ELSE [st EXCEPT !.prev = bar.Close]
    ELSE LET l == st.locals
             dec == BTExitDecision(bar.Low, bar.High, l.trailing_stop, l.take_profit)
             trade_profit == BTTradeProfit(dec[1], l.position, l.position_size)
         IN  IF dec[1] = None
             THEN [st EXCEPT
                      !.prev = bar.Close,
                      !.locals.highest_price =
                          IF RLt(@, bar.High) THEN bar.High ELSE @]
             ELSE [st EXCEPT
                      !.prev = bar.Close,
                      !.self.capital = RAdd(@, trade_profit),
                      !.self.all_trades = BTRecordTrade(@,
                          [entry |-> l.position, exit |-> dec[1],
                           size |-> l.position_size, stop |-> l.trailing_stop,
                           take_profit |-> l.take_profit, reason |-> dec[2],
                           profit |-> trade_profit,
                           capital_after |-> RAdd(st.self.capital, trade_profit)]),
                      !.locals.total_profit = RAdd(@, trade_profit),
                      !.locals.wins = IF trade_profit.n > 0 THEN @ + 1 ELSE @,
                      !.locals.losses = IF trade_profit.n > 0 THEN @ ELSE @ + 1,
                      !.locals.position = None,
                      !.locals.trailing_stop = R(0),
                      !.locals.take_profit = R(0),
                      !.locals.highest_price = R(0)]

\* the loop of run_single_symbol over the bars of a tape from bar i on
RECURSIVE BTBarsFrom(_, _, _)
BTBarsFrom(st, tape, i) ==
    IF i > Len(tape) THEN st
    ELSE BTBarsFrom(BTBar(st, tape[i]), tape, i + 1)

\* run_single_symbol over one symbol's tape: the Backtester it leaves
BTReplaySymbol(self, tape) ==
    BTBarsFrom([self |-> self, locals |-> BTLocals0, prev |-> R(MinPrice)], tape, 1).self

\* a start of run_single_symbol that takes over the position of the last
\* record the Backtester holds
BTSymbolStartInPosition(self) ==
    [self |-> self,
     locals |-> IF self.all_trades = <<>> THEN BTLocals0
                ELSE LET last == self.all_trades[Len(self.all_trades)]
                     IN  [BTLocals0 EXCEPT !.position = last.entry,
                                           !.position_size = last.size,
                                           !.trailing_stop = last.stop,
                                           !.take_profit = last.take_profit],
     prev |-> R(MinPrice)]

\* run_single_symbol before its loop: position, the stops and the counts are
\* locals set afresh; of the Backtester only capital, risk_per_trade and
\* all_trades are used later
BTSymbolStart(self) ==
    [self |-> self, locals |-> BTLocals0, prev |-> R(MinPrice)]

\* what the iteration over bar i that led from st to nx decided: the ENTRY or
\* EXIT it printed, with the price and the exit reason
BTBarDecision(st, nx, i) ==
    IF st.locals.position = None /\ nx.locals.position # None
    THEN [bar |-> i, kind |-> "entry", price |-> nx.locals.position, reason |-> ""]
    ELSE IF st.locals.position # None /\ nx.locals.position = None
    THEN LET trade == nx.self.all_trades[Len(nx.self.all_trades)]
         IN  [bar |-> i, kind |-> "exit", price |-> trade.exit, reason |-> trade.reason]
    ELSE [bar |-> i, kind |-> "none", price |-> None, reason |-> ""]

\* the decisions of the loop of run_single_symbol over a tape from bar i on
RECURSIVE BTDecisionsFrom(_, _, _)
BTDecisionsFrom(st, tape, i) ==
    IF i > Len(tape) THEN <<>>
    ELSE LET nx == BTBar(st, tape[i])
         IN  <<BTBarDecision(st, nx, i)>> \o BTDecisionsFrom(nx, tape, i + 1)

BTDecisions(self, tape) ==
    BTDecisionsFrom(BTSymbolStart(self), tape, 1)

\* run_single_symbol over one symbol's tape: the counts it returns, the
\* Backtester it leaves, and what it decided at each bar
run_single_symbol(self, tape) ==
    LET end == BTBarsFrom(BTSymbolStart(self), tape, 1)
    IN  [trades |-> end.locals.trades, wins |-> end.locals.wins,
         losses |-> end.locals.losses, profit |-> end.locals.total_profit,
         self |-> end.self, decisions |-> BTDecisions(self, tape)]

\* run's loop over the symbols from symbol k on, each with its own tape
RECURSIVE BTReplayFrom(_, _, _)
BTReplayFrom(self, tapes, k) ==
    IF k > Len(tapes) THEN self
    ELSE BTReplayFrom(BTReplaySymbol(self, tapes[k]), tapes, k + 1)

\* Backtester.run: all_trades is cleared, then the symbols are replayed in order
BTReplay(self, tapes) ==
    BTReplayFrom([self EXCEPT !.all_trades = <<>>], tapes, 1)

\* one Backtester whose run is called a second time, over the same tapes
BTReplayAgain(initial_capital, risk, tapes) ==
    LET first == BTReplay(Backtester(NoBacktester, initial_capital, risk), tapes)
    IN  [first |-> first, again |-> BTReplay(first, tapes)]

\* two Backtesters built one after the other with the same arguments, each
\* run over the same tapes: what each of them holds at the end
BTReplayTwice(initial_capital, risk, tapes) ==
    LET first == BTReplay(Backtester(NoBacktester, initial_capital, risk), tapes)
        second == BTReplay(Backtester(first, initial_capital, risk), tapes)
    IN  [first |-> first, second |-> second]

(***************************************************************************)
(* The broker (the Alpaca REST API the live programs call).  An order that *)
(* was submitted is open at the broker until it fills; a fill may come     *)
(* during the engine's polls or at any later time.                         *)
(***************************************************************************)
NoPosition ==
    [qty |-> 0, entry |-> None]

NoTrack ==
    [stop |-> None, highest |-> None]

\* account.equity and account.buying_power as the broker reports them
AccountEquity == 10000
AccountBuyingPower == 20000

\* the id api.submit_order gives a new order: one no open order has
NewOrderId(orders) ==
    CHOOSE i \in 1..(Cardinality(orders) + 1) : \A o \in orders : o.id # i

\* the broker's position after a fill of side/qty at price
BrokerAfterFill(pos, side, qty, price) ==
    IF side = "buy"
    THEN IF pos.qty = 0
         THEN [qty |-> qty, entry |-> price]
         ELSE [qty |-> pos.qty + qty,
               entry |-> RDiv(RAdd(RMul(R(pos.qty), pos.entry), RMul(R(qty), price)),
                              R(pos.qty + qty))]
    ELSE IF pos.qty > qty THEN [pos EXCEPT !.qty = @ - qty] ELSE NoPosition

\* the ledger of open events and of the stop of the open position after a fill
OpensAfterFill(n, pos, side, qty) ==
    IF side = "buy" THEN n + 1
    ELSE IF pos.qty > qty THEN n ELSE 0

TrackAfterFill(track, pos, side, qty, price) ==
    IF side = "buy"
    THEN IF pos.qty = 0 THEN [stop |-> None, highest |-> price] ELSE track
    ELSE IF pos.qty > qty THEN track ELSE NoTrack

\* an open order fills while the engine is not polling it
BrokerFill ==
    /\ prog \in {"run_live_trader", "main"}
    /\ \E o \in brokerOrders :
        /\ brokerOrders' = brokerOrders \ {o}
        /\ brokerPos' = [brokerPos EXCEPT
               ![o.symbol] = BrokerAfterFill(@, o.side, o.qty, o.price)]
        /\ opens' = [opens EXCEPT
               ![o.symbol] = OpensAfterFill(@, brokerPos[o.symbol], o.side, o.qty)]
        /\ liveTrack' = [liveTrack EXCEPT
               ![o.symbol] = TrackAfterFill(@, brokerPos[o.symbol], o.side, o.qty, o.price)]
    /\ UNCHANGED <<call, prog, risk_per_trade, btVars, fillReported, swingVars,
                   last_known_positions, livePc, liveCycle, livePositions, liveIdx, liveObs,
                   liveMain,
                   liveClock>>

(***************************************************************************)
(* LiveTrader (src/trading/live_trader.py).                                *)
(***************************************************************************)
\* LiveTrader.max_loss_per_trade
max_loss_per_trade ==
    Rat(2, 100)

\* LiveTrader.trailing_stop_levels, in the order of sorted(...items())
trailing_stop_levels ==
    << [profit_level |-> Rat(103, 100), stop_multiplier |-> R(0)],
       [profit_level |-> Rat(105, 100), stop_multiplier |-> Rat(97, 100)],
       [profit_level |-> Rat(110, 100), stop_multiplier |-> Rat(95, 100)] >>

\* what the polls of one execute_trade call can see
\* get_current_data: the attempts loop from a given attempt on, over what
\* get_bars does at each attempt: it raises, or returns an empty frame, or bars
RECURSIVE FetchLoop(_, _, _)
FetchLoop(outcomes, attempt, limit) ==
    IF attempt >= limit \/ attempt >= Len(outcomes)
    THEN [df |-> "None", attempts |-> attempt]
    ELSE IF outcomes[attempt + 1] = "empty"
    THEN [df |-> "None", attempts |-> attempt + 1]
    ELSE IF outcomes[attempt + 1] = "bars"
    THEN [df |-> "bars", attempts |-> attempt + 1]
    ELSE FetchLoop(outcomes, attempt + 1, limit)

\* a get_current_data that tries for as long as the API raises
get_current_data_until_answer(outcomes) ==
    FetchLoop(outcomes, 0, Len(outcomes))

\* get_current_data: what it returns, and the attempts it made (range(3))
get_current_data(outcomes) ==
    FetchLoop(outcomes, 0, 3)

FetchOutcomes ==
    [1..MaxFetchOutcomes -> {"raise", "empty", "bars"}]

\* what get_current_data can hand to its caller
FetchResults ==
    {get_current_data(o).df : o \in FetchOutcomes}

\* execute_trade: the loop of status polls from a given poll on, over what
\* get_order answers at each poll; a poll that raises ends the call with False
RECURSIVE PollLoop(_, _, _)
PollLoop(statuses, poll, limit) ==
    IF poll >= limit \/ poll >= Len(statuses)
    THEN [filled |-> FALSE, polls |-> poll]
    ELSE IF statuses[poll + 1] = "filled"
    THEN [filled |-> TRUE, polls |-> poll + 1]
    ELSE IF statuses[poll + 1] = "raise"
    THEN [filled |-> FALSE, polls |-> poll + 1]
    ELSE PollLoop(statuses, poll + 1, limit)

\* execute_trade: whether it saw the order filled, and the polls it made
\* (range(5))
WaitForFill(statuses) ==
    PollLoop(statuses, 0, 5)

PollStatuses ==
    [1..MaxPollOutcomes -> {"new", "filled", "raise"}]

\* what one execute_trade comes to: submit_order raised ("failed"), the order
\* was seen filled, or it was submitted and not seen filled ("pending")
TradeOutcomes ==
    {"failed"} \cup
    {IF WaitForFill(st).filled THEN "filled" ELSE "pending" : st \in PollStatuses}

\* the values of the Price_Change and RSI columns of a fetched frame
PriceChangeLevels ==
    {R(-1), Rat(3, 10), R(1)}

RSILevels ==
    {R(40), R(50), R(70)}

\* the ladder loop of manage_positions from a given rung on
RECURSIVE LiveLadder(_, _, _, _)
LiveLadder(levels, stop_loss, entry_price, current_price) ==
    IF levels = <<>> THEN stop_loss
    ELSE LET profit_level == Head(levels).profit_level
             stop_multiplier == Head(levels).stop_multiplier
             new_stop == IF stop_multiplier = R(0) THEN entry_price
                         ELSE RMul(current_price, stop_multiplier)
             raised == IF /\ RLeq(RMul(entry_price, profit_level), current_price)
                          /\ RLt(stop_loss, new_stop)
                       THEN new_stop ELSE stop_loss
         IN  LiveLadder(Tail(levels), raised, entry_price, current_price)

\* manage_positions: original_stop = entry_price * (1 - max_loss_per_trade)
LiveOriginalStop(entry_price) ==
    RMul(entry_price, RSub(R(1), max_loss_per_trade))

\* manage_positions: the stop the cycle applies
LiveStop(entry_price, current_price) ==
    LiveLadder(trailing_stop_levels, LiveOriginalStop(entry_price),
               entry_price, current_price)

\* manage_positions: the exit conditions
LiveExitReason(current_low, current_price, ma20, stop_loss) ==
    IF RLeq(current_low, stop_loss) THEN "stop"
    ELSE IF RLt(current_price, ma20) THEN "trend"
    ELSE "none"

\* the frames get_current_data returns, as far as their length matters: the
\* rows they hold and the MA_20 read off the latest row, which is NaN, read as
\* 0, while the frame holds fewer than 20 rows
LiveFrames ==
    { f \in [bars : {19, 20}, ma20 : MALevels \cup {R(0)}] :
        (f.bars < 20) <=> (f.ma20 = R(0)) }

\* check_entry_conditions on a frame of so many bars and its latest row
check_entry_conditions(bars, current_price, ma10, ma20, rsi, price_change) ==
    LET condition1 == RLt(ma10, current_price) /\ RLt(ma20, ma10)
        condition2 == RLt(R(40), rsi) /\ RLt(rsi, R(70))
        condition3 == RLt(Rat(3, 10), price_change)
    IN  IF bars < 20 THEN FALSE
        ELSE condition1 /\ condition2 /\ condition3

Min(a, b) ==
    IF a <= b THEN a ELSE b

\* LiveTrader.calculate_position_size
LiveCalculatePositionSize(equity, buying_power, risk, current_price, stop_loss) ==
    LET risk_amount == RMul(equity, risk)
        diff == RAbs(RSub(current_price, stop_loss))
        price_difference == IF RLt(diff, RMul(current_price, Rat(1, 100)))
                            THEN RMul(current_price, Rat(2, 100)) ELSE diff
        shares == RInt(RDiv(risk_amount, price_difference))
        max_shares_by_capital ==
            RInt(RDiv(RMul(buying_power, Rat(95, 100)), current_price))
        max_shares_by_allocation ==
            RInt(RDiv(RMul(equity, Rat(1, 10)), current_price))
        final_shares == Min(Min(shares, max_shares_by_capital), max_shares_by_allocation)
    IN  IF final_shares <= 0 THEN 0 ELSE final_shares

\* execute_trade(symbol, side, qty) with what its polls see; price is the
\* price the order fills at when it fills, track the stop ledger to go on from
ExecuteTrade(symbol, side, qty, price, outcome, track) ==
    IF qty <= 0 \/ outcome = "failed"
    THEN /\ liveTrack' = track
         /\ UNCHANGED <<brokerPos, brokerOrders, fillReported, last_known_positions, opens>>
    ELSE
    /\ IF outcome = "filled"
       THEN /\ brokerOrders' = brokerOrders
            /\ brokerPos' = [brokerPos EXCEPT
                   ![symbol] = BrokerAfterFill(@, side, qty, price)]
            /\ opens' = [opens EXCEPT
                   ![symbol] = OpensAfterFill(@, brokerPos[symbol], side, qty)]
            /\ liveTrack' = [track EXCEPT
                   ![symbol] = TrackAfterFill(@, brokerPos[symbol], side, qty, price)]
            /\ fillReported' = [fillReported EXCEPT ![symbol][side] = @ + 1]
            /\ last_known_positions' =
                   IF side = "buy"
                   THEN [last_known_positions EXCEPT
                            ![symbol] = [size |-> qty, entry_price |-> price]]
                   ELSE [last_known_positions EXCEPT ![symbol] = None]
       ELSE \* not filled within the polls: the order stays open at the broker
            /\ brokerOrders' = brokerOrders \cup
                   {[id |-> NewOrderId(brokerOrders), symbol |-> symbol, side |-> side,
                     qty |-> qty, price |-> price]}
            /\ liveTrack' = track
            /\ UNCHANGED <<brokerPos, fillReported, last_known_positions, opens>>

LiveNoObs ==
    [event |-> "none", entry |-> None, original_stop |-> None, prev_stop |-> None,
     stop |-> None, low |-> None, close |-> None, exit |-> "none", highest |-> None,
     bars |-> 0]

\* sync_positions: the dict that replaces last_known_positions.  A reported
\* position is [qty, avg_entry_price] with qty as the API gives it; int(p.qty)
\* raises for a quantity that is not a whole number, and the handler around the
\* position logs the error and leaves the position out
sync_positions(current_positions) ==
    [s \in DOMAIN current_positions |->
        IF current_positions[s] = None THEN None
        ELSE IF current_positions[s].qty.d # 1 THEN None
        ELSE [size |-> current_positions[s].qty.n,
              entry_price |-> current_positions[s].avg_entry_price]]

\* api.list_positions() as sync_positions receives it
ListPositions(pos) ==
    [s \in DOMAIN pos |->
        IF pos[s].qty > 0
        THEN [qty |-> R(pos[s].qty), avg_entry_price |-> pos[s].entry]
        ELSE None]

\* reconnect: the attempts loop from a given attempt on, over what each
\* attempt's API calls do ("ok" or "raise")
RECURSIVE ReconnectLoop(_, _, _)
ReconnectLoop(outcomes, attempt, limit) ==
    IF attempt >= limit \/ attempt >= Len(outcomes)
    THEN [connected |-> FALSE, attempts |-> attempt]
    ELSE IF outcomes[attempt + 1] = "ok"
    THEN [connected |-> TRUE, attempts |-> attempt + 1]
    ELSE ReconnectLoop(outcomes, attempt + 1, limit)

\* __init__: self.reconnect_attempts = 3
reconnect_attempts == 3

\* reconnect: whether it returned True, and the attempts it made
reconnect(outcomes) ==
    ReconnectLoop(outcomes, 0, reconnect_attempts)

\* what the API calls of the attempts of one reconnect do
ReconnectOutcomes ==
    [1..reconnect_attempts -> {"ok", "raise"}]

(***************************************************************************)
(* run_live_trader.main around LiveTrader.run: the options --server and    *)
(* --duration, the status-monitoring thread, and the reports at the end.   *)
(***************************************************************************)
\* passes of the loop of a run started with --server or with --duration
MaxWatchedCycles == 2

\* hours given to --duration
MaxDuration == 1

\* Python's None where a list of trades is expected, and a list of trades
NoTrades ==
    [some |-> FALSE, trades |-> {}]

TradeList(trades) ==
    [some |-> TRUE, trades |-> trades]

\* main as it calls trader.run: the monitor thread is started in server mode
\* only; end_time is set for a duration above 0
LiveMain0(server, duration) ==
    [server |-> server, duration |-> duration,
     monitor |-> IF server THEN "running" ELSE "off", stop_event |-> FALSE,
     expired |-> FALSE, expired_at |-> 0,
     stop |-> "none", finished |-> FALSE, report |-> NoTrades]

\* the ways a run is started: plain, with --server, with --duration
LiveMains ==
    {LiveMain0(FALSE, 0), LiveMain0(TRUE, 0), LiveMain0(FALSE, MaxDuration)}

\* the passes of the loop the model follows in this run
LiveCycleLimit ==
    IF liveMain.server \/ liveMain.duration > 0 THEN MaxWatchedCycles ELSE MaxCycles

\* the methods class LiveTrader defines
LiveTraderMethods ==
    {"__init__", "get_current_est_time", "calculate_rsi", "get_current_data",
     "check_entry_conditions", "calculate_position_size", "execute_trade",
     "manage_positions", "wait_for_market_open", "is_trading_time", "reconnect",
     "sync_positions", "print_current_status", "generate_daily_summary",
     "check_end_of_day", "run"}

\* a monitor iteration that takes the positions over from the broker, as
\* sync_positions does
MonitorIterationSyncing(known, reported) ==
    [raised |-> FALSE, last_known_positions |-> sync_positions(reported)]

\* monitor_trader_status: one iteration of its loop past the stop_event test.
\* trader.get_current_status() is a call of a method LiveTrader does not
\* define: the AttributeError ends the loop in the handler; the trader's
\* positions are as they were
MonitorIteration(known, reported) ==
    IF "get_current_status" \notin LiveTraderMethods
    THEN [raised |-> TRUE, last_known_positions |-> known]
    ELSE [raised |-> FALSE, last_known_positions |-> known]

\* the status-monitoring thread runs an iteration of its loop
MonitorStep ==
    /\ prog = "run_live_trader"
    /\ liveMain.monitor = "running"
    /\ LET iteration == MonitorIteration(last_known_positions, ListPositions(brokerPos))
       IN  IF liveMain.stop_event
           THEN /\ liveMain' = [liveMain EXCEPT !.monitor = "ended"]
                /\ UNCHANGED last_known_positions
           ELSE /\ liveMain' = [liveMain EXCEPT
                       !.monitor = IF iteration.raised THEN "ended" ELSE "running"]
                /\ last_known_positions' = iteration.last_known_positions
    /\ UNCHANGED <<call, prog, risk_per_trade, opens, btVars, brokerVars, swingVars,
                   livePc, liveCycle, livePositions, liveIdx, liveTrack, liveObs,
                   liveClock>>

\* the clock of a run started with --duration passes end_time, the time main
\* computed before it called trader.run, which is hours ahead: the loop is in
\* some pass by then; expired_at keeps the pass that was current at that moment
LiveDurationElapses ==
    /\ prog = "run_live_trader"
    /\ liveMain.duration > 0
    /\ liveCycle >= 1
    /\ ~liveMain.expired
    /\ ~liveMain.finished
    /\ liveMain' = [liveMain EXCEPT !.expired = TRUE, !.expired_at = liveCycle]
    /\ UNCHANGED <<call, prog, risk_per_trade, opens, btVars, brokerVars, swingVars,
                   last_known_positions, livePc, liveCycle, livePositions, liveIdx,
                   liveTrack, liveObs,
                   liveClock>>

\* minutes of the day: time(9, 45) and time(15, 55)
MarketOpenMinute == 585
MarketCloseMinute == 955

\* what a pass can sample: api.get_clock().is_open and the EST time of now,
\* at the two ends of the trading window and a minute outside each
ClockSamples ==
    [is_open : BOOLEAN,
     minute : {MarketOpenMinute - 1, MarketOpenMinute,
               MarketCloseMinute, MarketCloseMinute + 1}]

\* the locals of a pass that has not sampled the clock, or that has passed the
\* gate and entered manage_positions: they are not read after that
NoClock ==
    [is_open |-> FALSE, minute |-> 0]

\* a gate that looks at the time of day only
TradingGateByTimeOnly(sample) ==
    IF sample.minute < MarketOpenMinute THEN "early"
    ELSE IF sample.minute > MarketCloseMinute THEN "late"
    ELSE "trade"

\* run's gate before it looks at positions and signals: "closed", "early" and
\* "late" sleep and continue, "trade" goes on to manage_positions
TradingGate(sample) ==
    IF ~sample.is_open THEN "closed"
    ELSE IF sample.minute < MarketOpenMinute THEN "early"
    ELSE IF sample.minute > MarketCloseMinute THEN "late"
    ELSE "trade"

\* the attributes __init__ sets on a LiveTrader
LiveTraderAttributes ==
    {"logger", "est_tz", "api", "risk_per_trade", "last_known_positions",
     "reconnect_attempts", "max_loss_per_trade", "trailing_stop_levels"}

\* the symbols whose position the engine sold and saw the sale filled
ClosedTrades ==
    {s \in Symbols : fillReported[s].sell > 0}

\* what run returns to main for the trades it closed: run leaves its loop by
\* break and ends without a return statement
LiveRunReturn(closed) ==
    NoTrades

\* a KeyboardInterrupt reaches the live trader.  Inside the try of run's loop
\* it is caught by run, which logs it and breaks ("run"); in the sleep of the
\* handler of another error it leaves run and is caught by main ("main")
LiveInterrupt ==
    /\ prog = "run_live_trader"
    /\ livePc # "exited"
    /\ liveMain.stop = "none"
    /\ \E where \in IF liveObs.event = "error" THEN {"run", "main"} ELSE {"run"} :
          liveMain' = [liveMain EXCEPT !.stop = where]
    /\ livePc' = "exited"
    /\ liveObs' = [LiveNoObs EXCEPT !.event = "stopped"]
    /\ livePositions' = {}
    /\ liveIdx' = 1
    /\ liveClock' = NoClock
    /\ UNCHANGED <<call, prog, risk_per_trade, opens, btVars, brokerVars, swingVars,
                   last_known_positions, liveCycle, liveTrack>>

\* main after trader.run is over: create_trading_report is called with the
\* trades run returned if they are truthy, or, in the handler of a
\* KeyboardInterrupt that left run, with trader.completed_trades if the trader
\* has that attribute; the monitor thread is told to stop
LiveMainFinish ==
    /\ prog = "run_live_trader"
    /\ livePc = "exited"
    /\ ~liveMain.finished
    /\ LET trades == LiveRunReturn(ClosedTrades)
       IN  liveMain' = [liveMain EXCEPT
               !.finished = TRUE,
               !.stop_event = liveMain.server,
               !.report = IF liveMain.stop = "main"
                          THEN IF "completed_trades" \in LiveTraderAttributes
                               THEN TradeList(ClosedTrades) ELSE NoTrades
                          ELSE IF trades.some /\ trades.trades # {}
                               THEN trades ELSE NoTrades]
    /\ UNCHANGED <<call, prog, risk_per_trade, opens, btVars, brokerVars, swingVars,
                   last_known_positions, livePc, liveCycle, livePositions, liveIdx,
                   liveTrack, liveObs,
                   liveClock>>

\* run: the start of a pass of the loop up to positions = api.list_positions(),
\* with the handlers of an exception raised by one of the API calls on the way
LiveCycleStart ==
    /\ prog = "run_live_trader"
    /\ livePc = "cycle"
    /\ liveCycle < LiveCycleLimit
    /\ liveCycle' = liveCycle + 1
    /\ liveIdx' = 1
    /\ \/ \E sample \in ClockSamples :
             IF TradingGate(sample) = "trade"
             THEN /\ livePositions' = {s \in Symbols : brokerPos[s].qty > 0}
                  /\ livePc' = "manage"
                  /\ liveObs' = LiveNoObs
                  /\ liveClock' = sample
                  /\ UNCHANGED last_known_positions
             ELSE \* sleep, then continue
                  /\ livePc' = "cycle"
                  /\ liveObs' = [LiveNoObs EXCEPT !.event = TradingGate(sample)]
                  /\ liveClock' = NoClock
                  /\ UNCHANGED <<last_known_positions, livePositions>>
       \/ \* an exception that names neither "connection" nor "network": sleep(60)
          /\ livePc' = "cycle"
          /\ liveObs' = [LiveNoObs EXCEPT !.event = "error"]
          /\ liveClock' = NoClock
          /\ UNCHANGED <<last_known_positions, livePositions>>
       \/ \* a connection error: reconnect(), then continue or break
          \E outcomes \in ReconnectOutcomes :
              /\ liveClock' = NoClock
              /\ IF reconnect(outcomes).connected
                 THEN /\ last_known_positions' = sync_positions(ListPositions(brokerPos))
                      /\ livePc' = "cycle"
                      /\ liveObs' = [LiveNoObs EXCEPT !.event = "reconnected"]
                      /\ UNCHANGED livePositions
                 ELSE /\ livePc' = "exited"
                      /\ liveObs' = [LiveNoObs EXCEPT !.event = "exited"]
                      /\ UNCHANGED <<last_known_positions, livePositions>>
    /\ UNCHANGED <<call, prog, risk_per_trade, opens, btVars, brokerVars, swingVars,
                   liveTrack, liveMain>>

\* manage_positions, for the position of symbols[liveIdx]
LiveManage ==
    /\ prog = "run_live_trader"
    /\ livePc = "manage"
    /\ LET symbol == symbols[liveIdx]
           position == brokerPos[symbol]
           entry_price == position.entry
       IN  IF position.qty = 0
           THEN /\ liveObs' = LiveNoObs
                /\ UNCHANGED <<brokerVars, last_known_positions, opens, liveTrack>>
           ELSE
           \/ \* get_current_data returned None
              /\ "None" \in FetchResults
              /\ liveObs' = [LiveNoObs EXCEPT !.event = "nodata"]
              /\ UNCHANGED <<brokerVars, last_known_positions, opens, liveTrack>>
           \/ \E current_low \in LivePrices, current_price \in LivePrices, df \in LiveFrames :
                /\ "bars" \in FetchResults
                /\ RLeq(current_low, current_price)
                /\ LET stop_loss == LiveStop(entry_price, current_price)
                       exit_reason == LiveExitReason(current_low, current_price,
                                                     df.ma20, stop_loss)
                       highest == RMax(liveTrack[symbol].highest, current_price)
                       track == [liveTrack EXCEPT ![symbol] =
                                    [stop |-> stop_loss, highest |-> highest]]
                   IN  /\ liveObs' =
                              [event |-> "managed", entry |-> entry_price,
                               original_stop |-> LiveOriginalStop(entry_price),
                               prev_stop |-> liveTrack[symbol].stop,
                               stop |-> stop_loss, low |-> current_low,
                               close |-> current_price, exit |-> exit_reason,
                               highest |-> highest, bars |-> df.bars]
                       /\ IF exit_reason # "none"
                          THEN \E outcome \in TradeOutcomes :
                                   ExecuteTrade(symbol, "sell", position.qty,
                                                current_price, outcome, track)
                          ELSE /\ liveTrack' = track
                               /\ UNCHANGED <<brokerVars, last_known_positions, opens>>
    /\ livePc' = "scan"
    /\ liveClock' = NoClock
    /\ UNCHANGED <<call, prog, risk_per_trade, btVars, swingVars, liveCycle, livePositions,
                   liveIdx, liveMain>>

\* run: one iteration of the entry scan, for symbols[liveIdx]
LiveScan ==
    /\ prog = "run_live_trader"
    /\ livePc = "scan"
    /\ LET symbol == symbols[liveIdx]
       IN  IF symbol \in livePositions
           THEN UNCHANGED <<brokerVars, last_known_positions, opens, liveTrack>>
           ELSE
           \/ \* get_current_data returned None
              /\ "None" \in FetchResults
              /\ UNCHANGED <<brokerVars, last_known_positions, opens, liveTrack>>
           \/ \E current_price \in LivePrices, ma10 \in MALevels, df \in LiveFrames,
                 rsi \in RSILevels, price_change \in PriceChangeLevels :
                /\ "bars" \in FetchResults
                /\ IF check_entry_conditions(df.bars, current_price, ma10, df.ma20, rsi,
                                             price_change)
                   THEN LET stop_loss == RMul(current_price, RSub(R(1), max_loss_per_trade))
                            position_size ==
                                LiveCalculatePositionSize(R(AccountEquity),
                                    R(AccountBuyingPower), risk_per_trade,
                                    current_price, stop_loss)
                        IN  \E outcome \in TradeOutcomes :
                                ExecuteTrade(symbol, "buy", position_size, current_price,
                                             outcome, liveTrack)
                   ELSE UNCHANGED <<brokerVars, last_known_positions, opens, liveTrack>>
    /\ IF liveIdx < Len(symbols)
       THEN /\ liveIdx' = liveIdx + 1
            /\ livePc' = "scan"
       ELSE /\ liveIdx' = 1
            /\ livePc' = "cycle"
    /\ liveObs' = LiveNoObs
    /\ UNCHANGED <<call, prog, risk_per_trade, btVars, swingVars, liveCycle, livePositions,
                   liveMain, liveClock>>

(***************************************************************************)
(* SwingTrader (src/main.py) with ExitStrategy, EntryStrategy, RiskManager. *)
(***************************************************************************)
\* TradingConfig.RISK_PER_TRADE and TradingConfig.RSI_OVERBOUGHT
RISK_PER_TRADE ==
    Rat(2, 100)

RSI_OVERBOUGHT == 60

\* the bars a frame needs before find_entry_signal looks at it
EntryHistory == 200

\* the label df.index[-1] of a frame of bars: the timestamp of the latest bar
BarTimestamp ==
    "t_latest"

\* a frame as the exit check reads it: its length, the latest bar, whether the
\* indicator columns are there, the MACD/Signal order of the last two rows
\* and the latest RSI
ExitFrames(prices) ==
    [len : {1, 2}, low : prices, high : prices, close : prices,
     indicators : BOOLEAN, prev_macd_above : BOOLEAN, macd_below : BOOLEAN,
     rsi : {R(RSI_OVERBOUGHT), R(RSI_OVERBOUGHT + 10)}]

NoSignal ==
    [symbol |-> "", exit_type |-> "none", exit_price |-> None]

\* an exit check that looks at the take profit before the stop
check_exit_signal_take_profit_first(df, entry_price, stop_loss, take_profit) ==
    IF df.len < 2 THEN NoSignal
    ELSE IF RLeq(take_profit, df.high)
    THEN [symbol |-> BarTimestamp, exit_type |-> "take_profit", exit_price |-> take_profit]
    ELSE IF RLeq(df.low, stop_loss)
    THEN [symbol |-> BarTimestamp, exit_type |-> "stop_loss", exit_price |-> stop_loss]
    ELSE IF ~df.indicators
    THEN [NoSignal EXCEPT !.exit_type = "KeyError"]
    ELSE IF df.prev_macd_above /\ df.macd_below /\ RLt(R(RSI_OVERBOUGHT), df.rsi)
    THEN [symbol |-> BarTimestamp, exit_type |-> "technical", exit_price |-> df.close]
    ELSE NoSignal

\* ExitStrategy.check_exit_signal; exit_type "KeyError" stands for the
\* exception a frame without the MACD and RSI columns raises
check_exit_signal(df, entry_price, stop_loss, take_profit) ==
    IF df.len < 2 THEN NoSignal
    ELSE IF RLeq(df.low, stop_loss)
    THEN [symbol |-> BarTimestamp, exit_type |-> "stop_loss", exit_price |-> stop_loss]
    ELSE IF RLeq(take_profit, df.high)
    THEN [symbol |-> BarTimestamp, exit_type |-> "take_profit", exit_price |-> take_profit]
    ELSE IF ~df.indicators
    THEN [NoSignal EXCEPT !.exit_type = "KeyError"]
    ELSE IF df.prev_macd_above /\ df.macd_below /\ RLt(R(RSI_OVERBOUGHT), df.rsi)
    THEN [symbol |-> BarTimestamp, exit_type |-> "technical", exit_price |-> df.close]
    ELSE NoSignal

\* EntryStrategy.calculate_take_profit
calculate_take_profit(entry_price, stop_loss) ==
    RAdd(entry_price, RMul(RSub(entry_price, stop_loss), R(2)))

\* RiskManager.positions.get(key)
RMGet(positions, key) ==
    IF key \in Symbols THEN positions[key] ELSE None

\* find_entry_signal's None
NoEntrySignal ==
    [symbol |-> "", entry_price |-> None, stop_loss |-> None,
     take_profit |-> None, position_size |-> 0]

\* entry is the EntrySignal the last pass of find_new_entries handed to
\* execute_entry
SwingNoObs ==
    [signal |-> NoSignal, stop_loss |-> None, take_profit |-> None,
     low |-> None, high |-> None, executed |-> FALSE, entry |-> NoEntrySignal]

\* manage_positions for the tracked position of the symbol, with execute_exit
SwingManage ==
    /\ prog = "main"
    /\ swingPc = "manage"
    /\ LET symbol == symbols[1]
           position == rmPositions[symbol]
       IN  IF position = None
           THEN /\ swingPc' = "entries"
                /\ swingObs' = SwingNoObs
                /\ UNCHANGED <<rmPositions, brokerVars>>
           ELSE
           \/ \* bars.empty
              /\ swingPc' = "entries"
              /\ swingObs' = SwingNoObs
              /\ UNCHANGED <<rmPositions, brokerVars>>
           \/ \E bars \in ExitFrames(LivePrices) :
                /\ ~bars.indicators /\ ~bars.prev_macd_above /\ ~bars.macd_below
                /\ bars.rsi = R(RSI_OVERBOUGHT)
                /\ RLeq(bars.low, bars.close) /\ RLeq(bars.close, bars.high)
                /\ LET exit_signal == check_exit_signal(bars, position.entry_price,
                                          position.stop_loss, position.take_profit)
                       tracked == RMGet(rmPositions, exit_signal.symbol)
                       obs == [signal |-> exit_signal, stop_loss |-> position.stop_loss,
                               take_profit |-> position.take_profit,
                               low |-> bars.low, high |-> bars.high, executed |-> FALSE,
                               entry |-> NoEntrySignal]
                   IN  IF exit_signal.exit_type = "KeyError"
                       THEN \* the exception ends this pass of run's loop
                            /\ swingPc' = "manage"
                            /\ swingObs' = obs
                            /\ UNCHANGED <<rmPositions, brokerVars>>
                       ELSE IF exit_signal.exit_type = "none" \/ tracked = None
                       THEN /\ swingPc' = "entries"
                            /\ swingObs' = obs
                            /\ UNCHANGED <<rmPositions, brokerVars>>
                       ELSE \/ \* submit_order raises
                               /\ swingPc' = "entries"
                               /\ swingObs' = obs
                               /\ UNCHANGED <<rmPositions, brokerVars>>
                            \/ /\ brokerOrders' = brokerOrders \cup
                                      {[id |-> NewOrderId(brokerOrders),
                                        symbol |-> exit_signal.symbol, side |-> "sell",
                                        qty |-> tracked.size,
                                        price |-> exit_signal.exit_price]}
                               /\ rmPositions' =
                                      [rmPositions EXCEPT ![exit_signal.symbol] = None]
                               /\ swingPc' = "entries"
                               /\ swingObs' = [obs EXCEPT !.executed = TRUE]
                               /\ UNCHANGED <<brokerPos, fillReported>>
    /\ UNCHANGED <<call, prog, risk_per_trade, opens, btVars, liveVars>>

\* a frame as find_entry_signal reads it: its length, the latest close and
\* moving averages, what check_pullback and check_confirmation say of it, and
\* the stop calculate_stop_loss derives from it (never above the close)
EntryFrames(prices) ==
    [len : {EntryHistory - 1, EntryHistory}, close : prices,
     ma_fast : MALevels, ma_slow : MALevels,
     pullback : BOOLEAN, confirmation : BOOLEAN, stop_loss : prices]

\* EntryStrategy.find_entry_signal; symbol "ZeroDivisionError" stands for the
\* exception of a stop equal to the close
find_entry_signal(symbol, df, available_capital) ==
    IF df.len < EntryHistory THEN NoEntrySignal
    ELSE IF ~(RLt(df.ma_fast, df.close) /\ RLt(df.ma_slow, df.ma_fast)) THEN NoEntrySignal
    ELSE IF ~(df.pullback /\ df.confirmation) THEN NoEntrySignal
    ELSE LET entry_price == df.close
             stop_loss == df.stop_loss
             risk_amount == RMul(available_capital, RISK_PER_TRADE)
             risk_per_share == RSub(entry_price, stop_loss)
         IN  IF risk_per_share = R(0)
             THEN [NoEntrySignal EXCEPT !.symbol = "ZeroDivisionError"]
             ELSE [symbol |-> symbol, entry_price |-> entry_price,
                   stop_loss |-> stop_loss,
                   take_profit |-> calculate_take_profit(entry_price, stop_loss),
                   position_size |-> RInt(RDiv(risk_amount, risk_per_share))]

\* account.portfolio_value as find_new_entries reads it
PortfolioValues ==
    {R(SmallCapital), R(AccountEquity)}

\* find_new_entries for the symbol, with execute_entry
SwingEntries ==
    /\ prog = "main"
    /\ swingPc = "entries"
    /\ swingPc' = "manage"
    /\ LET symbol == symbols[1]
           none == [swingObs EXCEPT !.entry = NoEntrySignal]
       IN  IF rmPositions[symbol] # None
           THEN swingObs' = none /\ UNCHANGED <<rmPositions, brokerVars>>
           ELSE
           \/ \* bars.empty
              swingObs' = none /\ UNCHANGED <<rmPositions, brokerVars>>
           \/ \E bars \in EntryFrames(LivePrices), portfolio_value \in PortfolioValues :
                /\ RLeq(bars.stop_loss, bars.close)
                /\ LET entry_signal ==
                           find_entry_signal(symbol, bars, portfolio_value)
                   IN  IF entry_signal.symbol # symbol
                       THEN swingObs' = none /\ UNCHANGED <<rmPositions, brokerVars>>
                       ELSE /\ swingObs' = [swingObs EXCEPT !.entry = entry_signal]
                            /\ \/ \* submit_order raises
                                  UNCHANGED <<rmPositions, brokerVars>>
                               \/ /\ brokerOrders' = brokerOrders \cup
                                         {[id |-> NewOrderId(brokerOrders),
                                           symbol |-> symbol, side |-> "buy",
                                           qty |-> entry_signal.position_size,
                                           price |-> entry_signal.entry_price]}
                                  /\ rmPositions' = [rmPositions EXCEPT ![symbol] =
                                         [entry_price |-> entry_signal.entry_price,
                                          stop_loss |-> entry_signal.stop_loss,
                                          take_profit |-> entry_signal.take_profit,
                                          size |-> entry_signal.position_size]]
                                  /\ UNCHANGED <<brokerPos, fillReported>>
    /\ UNCHANGED <<call, prog, risk_per_trade, opens, btVars, liveVars>>

(***************************************************************************)
(* Backtester.calculate_position_size (src/backtesting/backtest.py).       *)
(***************************************************************************)
\* the fraction of capital line 38 caps a position's value at
BTMaxPositionFraction ==
    Rat(1, 10)

\* the smallest size line 51 lets through
BTMinPositionSize ==
    Rat(1, 100)

BTCalculatePositionSize(cap, risk, entry_price, stop_loss) ==
    LET risk_amount == RMul(cap, risk)
        diff == RAbs(RSub(entry_price, stop_loss))
        risk_per_share == IF RLeq(diff, R(0)) THEN RMul(entry_price, Rat(1, 100))
                          ELSE diff
        size0 == RDiv(risk_amount, risk_per_share)
        max_position_value == RMul(cap, BTMaxPositionFraction)
        size1 == IF RLt(max_position_value, RMul(size0, entry_price))
                 THEN RDiv(max_position_value, entry_price) ELSE size0
        size2 == IF RLt(cap, RMul(size1, entry_price))
                 THEN RDiv(RMul(cap, Rat(95, 100)), entry_price) ELSE size1
    IN  IF RLt(size2, BTMinPositionSize) THEN BTMinPositionSize ELSE size2

(***************************************************************************)
(* ForwardTester (src/backtesting/forward_test.py).                        *)
(***************************************************************************)
\* the methods class ForwardTester defines
ForwardTesterMethods ==
    {"__init__", "get_latest_data", "check_for_signals", "print_daily_report"}

\* get_latest_data: None (here "None") for an empty download, for a download
\* that raises, and for the AttributeError of a call to a method the class
\* does not define; the frame with its indicator columns otherwise
get_latest_data(download) ==
    IF download \in {"empty", "raises"} THEN "None"
    ELSE IF "calculate_rsi" \notin ForwardTesterMethods THEN "None"
    ELSE "frame"

\* check_for_signals: the symbols whose frame gets past line 44
ForwardChecked(syms, download) ==
    {syms[i] : i \in {j \in 1..Len(syms) : get_latest_data(download) # "None"}}

\* a position branch whose rungs assign their candidate instead of taking the
\* maximum with the stop so far
ForwardPositionBranchAssign(position, latest) ==
    IF RLeq(latest.Low, position.trailing_stop)
    THEN [type |-> "stop_loss", price |-> position.trailing_stop, position |-> position]
    ELSE IF RLt(latest.Close, latest.MA_20)
    THEN [type |-> "trend_exit", price |-> latest.Close, position |-> position]
    ELSE IF RLt(position.highest_price, latest.High)
    THEN LET stop1 == IF RLeq(RMul(position.entry, Rat(103, 100)), latest.High)
                      THEN position.entry ELSE position.trailing_stop
             stop2 == IF RLeq(RMul(position.entry, Rat(105, 100)), latest.High)
                      THEN RMul(latest.High, Rat(97, 100)) ELSE stop1
             stop3 == IF RLeq(RMul(position.entry, Rat(110, 100)), latest.High)
                      THEN RMul(latest.High, Rat(95, 100)) ELSE stop2
         IN  [type |-> "none", price |-> None,
              position |-> [position EXCEPT !.highest_price = latest.High,
                                            !.trailing_stop = stop3]]
    ELSE [type |-> "none", price |-> None, position |-> position]

\* check_for_signals, lines 49-80: the branch for a symbol in open_positions
ForwardPositionBranch(position, latest) ==
    IF RLeq(latest.Low, position.trailing_stop)
    THEN [type |-> "stop_loss", price |-> position.trailing_stop, position |-> position]
    ELSE IF RLt(latest.Close, latest.MA_20)
    THEN [type |-> "trend_exit", price |-> latest.Close, position |-> position]
    ELSE IF RLt(position.highest_price, latest.High)
    THEN LET stop1 == IF RLeq(RMul(position.entry, Rat(103, 100)), latest.High)
                      THEN RMax(position.entry, position.trailing_stop)
                      ELSE position.trailing_stop
             stop2 == IF RLeq(RMul(position.entry, Rat(105, 100)), latest.High)
                      THEN RMax(RMul(latest.High, Rat(97, 100)), stop1) ELSE stop1
             stop3 == IF RLeq(RMul(position.entry, Rat(110, 100)), latest.High)
                      THEN RMax(RMul(latest.High, Rat(95, 100)), stop2) ELSE stop2
         IN  [type |-> "none", price |-> None,
              position |-> [position EXCEPT !.highest_price = latest.High,
                                            !.trailing_stop = stop3]]
    ELSE [type |-> "none", price |-> None, position |-> position]

\* check_for_signals, lines 84-99: the count of entry conditions met
ForwardConditionsMet(latest) ==
    LET trend_condition ==
            RLt(latest.MA_10, latest.Close) \/ RLt(latest.MA_20, latest.Close)
        pullback_condition ==
            \/ RLt(RDiv(RAbs(RSub(latest.Close, latest.MA_10)), latest.Close), Rat(2, 100))
            \/ RLt(RDiv(RAbs(RSub(latest.Close, latest.MA_20)), latest.Close), Rat(3, 100))
        momentum_condition ==
            RLt(Rat(-2, 100), latest.Price_Change) \/ RLt(latest.RSI, R(40))
    IN  (IF trend_condition THEN 1 ELSE 0) + (IF pullback_condition THEN 1 ELSE 0)
        + (IF momentum_condition THEN 1 ELSE 0)

\* check_for_signals, lines 101-111: what the entry branch does with the
\* count; "AttributeError" is the call of a method the class does not define
ForwardEntryBranch(latest) ==
    IF ForwardConditionsMet(latest) >= 2
    THEN IF "calculate_position_size" \notin ForwardTesterMethods
         THEN [result |-> "AttributeError", entry_price |-> None, stop_loss |-> None]
         ELSE [result |-> "entry", entry_price |-> latest.Close,
               stop_loss |-> RMul(latest.Close, Rat(98, 100))]
    ELSE [result |-> "none", entry_price |-> None, stop_loss |-> None]

(***************************************************************************)
(* The RSI routines (src/utils/indicators.py, src/backtesting/backtest.py, *)
(* src/trading/live_trader.py), on one full window of close-to-close       *)
(* changes.  A float is a rational, an infinity or NaN; a division by zero *)
(* of two Series gives an infinity or NaN and does not raise.              *)
(***************************************************************************)
\* period: int = 14, window=14
RSIPeriod == 14

NaN ==
    [n |-> 0, d |-> 0]

Inf ==
    [n |-> 1, d |-> 0]

NegInf ==
    [n |-> -1, d |-> 0]

\* the 1e-10 of fetch_data and calculate_indicators and the 1e-9 of
\* LiveTrader.calculate_rsi, scaled to what 32-bit integers can carry: two
\* small positive numbers a factor of ten apart
Epsilon10 ==
    Rat(1, 100000)

Epsilon9 ==
    Rat(1, 10000)

\* a / b of two floats, the divisor finite
FDiv(a, b) ==
    IF a.d = 0 THEN a
    ELSE IF b.n = 0
    THEN IF a.n = 0 THEN NaN ELSE IF a.n > 0 THEN Inf ELSE NegInf
    ELSE RDiv(a, b)

\* 100 - (100 / (1 + rs))
RSIFromRS(rs) ==
    IF rs = NaN THEN NaN
    ELSE IF rs \in {Inf, NegInf} THEN R(100)
    ELSE IF RAdd(R(1), rs) = R(0) THEN NegInf
    ELSE RSub(R(100), RDiv(R(100), RAdd(R(1), rs)))

\* a gain that keeps the falls of the price with their sign
Unclipped(delta) ==
    delta

\* delta.clip(lower=0), delta.where(delta > 0, 0)
ClipLower(delta) ==
    IF delta.n > 0 THEN delta ELSE R(0)

\* -delta.clip(upper=0), -delta.where(delta < 0, 0)
ClipUpperNeg(delta) ==
    IF delta.n < 0 THEN RNeg(delta) ELSE R(0)

RECURSIVE GainSum(_, _)
GainSum(window, i) ==
    IF i > Len(window) THEN R(0)
    ELSE RAdd(ClipLower(window[i]), GainSum(window, i + 1))

RECURSIVE LossSum(_, _)
LossSum(window, i) ==
    IF i > Len(window) THEN R(0)
    ELSE RAdd(ClipUpperNeg(window[i]), LossSum(window, i + 1))

\* gain.rolling(window=period).mean() at the window's last row
AvgGain(window) ==
    RDiv(GainSum(window, 1), R(RSIPeriod))

\* loss.rolling(window=period).mean() at the window's last row
AvgLoss(window) ==
    RDiv(LossSum(window, 1), R(RSIPeriod))

\* TechnicalIndicators.add_rsi: rs = gain / loss
add_rsi(window) ==
    RSIFromRS(FDiv(AvgGain(window), AvgLoss(window)))

\* Backtester.calculate_rsi: rs = gain / loss
BTCalculateRSI(window) ==
    RSIFromRS(FDiv(AvgGain(window), AvgLoss(window)))

\* Backtester.fetch_data: rs = avg_gain / avg_loss.replace(0, 1e-10)
BTFetchDataRSI(window) ==
    LET avg_loss == AvgLoss(window)
    IN  RSIFromRS(FDiv(AvgGain(window),
                       IF avg_loss = R(0) THEN Epsilon10 ELSE avg_loss))

\* Backtester.calculate_indicators: rs = avg_gain / (avg_loss + 1e-10)
BTCalculateIndicatorsRSI(window) ==
    RSIFromRS(FDiv(AvgGain(window), RAdd(AvgLoss(window), Epsilon10)))

\* LiveTrader.calculate_rsi: rs = gain / loss.replace(0, 1e-9)
LiveCalculateRSI(window) ==
    LET loss == AvgLoss(window)
    IN  RSIFromRS(FDiv(AvgGain(window), IF loss = R(0) THEN Epsilon9 ELSE loss))

\* the RSI each routine puts in the window's last row
RSIValues(window) ==
    [add_rsi |-> add_rsi(window),
     calculate_rsi |-> BTCalculateRSI(window),
     fetch_data |-> BTFetchDataRSI(window),
     calculate_indicators |-> BTCalculateIndicatorsRSI(window),
     live |-> LiveCalculateRSI(window)]

(***************************************************************************)
(* Direct calls of the functions above, one call per run.                  *)
(***************************************************************************)
NoCall ==
    [fn |-> "none", args |-> None, done |-> TRUE, out |-> None]

Pending(fn, args) ==
    [fn |-> fn, args |-> args, done |-> FALSE, out |-> None]

\* a stop half a dollar below LadderEntry, closer to it than 1% of the price
TightStop ==
    RSub(R(LadderEntry), Rat(1, 2))

SizeArgs ==
    [capital : {R(SmallCapital), R(INITIAL_CAPITAL)}, risk : RiskLevels,
     entry_price : CallPrices, stop_loss : CallPrices \cup {TightStop}]

LiveSizeArgs ==
    [equity : {R(INITIAL_CAPITAL), R(AccountEquity)},
     buying_power : {R(INITIAL_CAPITAL), R(AccountBuyingPower)}, risk : RiskLevels,
     current_price : CallPrices, stop_loss : CallPrices \cup {TightStop}]

\* frames that pass the entry rules of find_entry_signal, with a close of
\* LadderEntry and a stop 2% below it, half a dollar below it, or at it
EntrySizingArgs ==
    [df : {f \in EntryFrames({R(LadderEntry - 2), TightStop, R(LadderEntry)}) :
             /\ f.len = EntryHistory /\ f.close = R(LadderEntry)
             /\ f.ma_fast = R(MinPrice) /\ f.ma_slow = R(MinPrice - 1)
             /\ f.pullback /\ f.confirmation},
     available_capital : PortfolioValues]

ForwardPositionArgs ==
    { a \in [entry : {R(LadderEntry)},
             trailing_stop : {R(LadderEntry - 2), R(LadderEntry)},
             highest_price : {R(LadderEntry), R(LadderEntry + 3), R(LadderEntry + 5)},
             Low : CallPrices, Close : CallPrices, High : CallPrices,
             MA_20 : {R(LadderEntry - 5), R(LadderEntry + 11)}] :
        RLeq(a.Low, a.Close) /\ RLeq(a.Close, a.High) }

ForwardEntryArgs ==
    [Close : {R(LadderEntry)}, MA_10 : CallPrices, MA_20 : CallPrices,
     Price_Change : {Rat(-3, 100), R(0)}, RSI : {R(30), R(50)}]

LiveStopArgs ==
    [entry_price : CallPrices, current_price : CallPrices]

ExitSignalArgs ==
    { a \in [df : ExitFrames(CallPrices), entry_price : {R(LadderEntry)},
             stop_loss : {R(LadderEntry - 2)}, take_profit : {R(LadderEntry + 5)}] :
        /\ RLeq(a.df.low, a.df.close) /\ RLeq(a.df.close, a.df.high)
        /\ a.df.indicators }

\* one bar put before the entry rules of the three engines
DecisionEntryArgs ==
    [Close : {R(LadderEntry)}, prev_close : {R(LadderEntry - 2), R(LadderEntry)},
     MA_10 : CallPrices, MA_20 : CallPrices, RSI : {R(30), R(50), R(80)}]

\* one bar put before the exit rules of the three engines, for a position
\* entered at LadderEntry whose stop is the initial one, 2% below the entry
DecisionExitArgs ==
    { a \in ForwardPositionArgs :
        a.trailing_stop = R(LadderEntry - 2) /\ a.highest_price = R(LadderEntry) }

\* does each engine open a position on this bar: run_single_symbol's entry
\* condition, check_entry_conditions on the frame of get_current_data
\* (Price_Change in percent), and the entry branch of check_for_signals on
\* the frame of get_latest_data (Price_Change as a fraction)
EntryDecisions(a) ==
    LET change == RDiv(RSub(a.Close, a.prev_close), a.prev_close)
    IN  [backtest |-> BTEntryCondition(a.Close, a.prev_close, a.MA_10, a.MA_20),
         live |-> check_entry_conditions(20, a.Close, a.MA_10, a.MA_20, a.RSI,
                                         RMul(change, R(100))),
         forward |-> ForwardEntryBranch(
                         [Close |-> a.Close, MA_10 |-> a.MA_10, MA_20 |-> a.MA_20,
                          Price_Change |-> change, RSI |-> a.RSI]).result = "entry"]

\* does each engine close the position on this bar, and why: the exit checks
\* of run_single_symbol, of manage_positions and of check_for_signals
ExitDecisions(a) ==
    LET bt_reason == BTExitDecision(a.Low, a.High, BTStopLossPrice(a.entry),
                                    RMul(a.entry, TakeProfitFactor))[2]
        live_reason == LiveExitReason(a.Low, a.Close, a.MA_20,
                                      LiveStop(a.entry, a.Close))
        forward_type == ForwardPositionBranch(
                            [entry |-> a.entry, trailing_stop |-> a.trailing_stop,
                             highest_price |-> a.highest_price], a).type
    IN  [backtest |-> IF bt_reason = "Stop Loss" THEN "stop"
                      ELSE IF bt_reason = "Take Profit" THEN "take_profit"
                      ELSE "none",
         live |-> live_reason,
         forward |-> IF forward_type = "stop_loss" THEN "stop"
                     ELSE IF forward_type = "trend_exit" THEN "trend"
                     ELSE "none"]

CallBTCalculatePositionSize ==
    /\ prog = "call"
    /\ call.fn = "Backtester.calculate_position_size" /\ ~call.done
    /\ call' = [call EXCEPT !.done = TRUE,
                   !.out = BTCalculatePositionSize(call.args.capital, call.args.risk,
                               call.args.entry_price, call.args.stop_loss)]
    /\ UNCHANGED <<prog, risk_per_trade, opens, btVars, brokerVars, liveVars, swingVars>>

CallLiveCalculatePositionSize ==
    /\ prog = "call"
    /\ call.fn = "LiveTrader.calculate_position_size" /\ ~call.done
    /\ call' = [call EXCEPT !.done = TRUE,
                   !.out = LiveCalculatePositionSize(call.args.equity,
                               call.args.buying_power, call.args.risk,
                               call.args.current_price, call.args.stop_loss)]
    /\ UNCHANGED <<prog, risk_per_trade, opens, btVars, brokerVars, liveVars, swingVars>>

CallForwardPositionBranch ==
    /\ prog = "call"
    /\ call.fn = "ForwardTester.check_for_signals:position" /\ ~call.done
    /\ call' = [call EXCEPT !.done = TRUE,
                   !.out = ForwardPositionBranch(
                               [entry |-> call.args.entry,
                                trailing_stop |-> call.args.trailing_stop,
                                highest_price |-> call.args.highest_price],
                               call.args)]
    /\ UNCHANGED <<prog, risk_per_trade, opens, btVars, brokerVars, liveVars, swingVars>>

CallForwardEntryBranch ==
    /\ prog = "call"
    /\ call.fn = "ForwardTester.check_for_signals:entry" /\ ~call.done
    /\ call' = [call EXCEPT !.done = TRUE, !.out = ForwardEntryBranch(call.args)]
    /\ UNCHANGED <<prog, risk_per_trade, opens, btVars, brokerVars, liveVars, swingVars>>

CallForwardChecked ==
    /\ prog = "call"
    /\ call.fn = "ForwardTester.check_for_signals" /\ ~call.done
    /\ call' = [call EXCEPT !.done = TRUE, !.out = ForwardChecked(symbols, call.args)]
    /\ UNCHANGED <<prog, risk_per_trade, opens, btVars, brokerVars, liveVars, swingVars>>

CallLiveStop ==
    /\ prog = "call"
    /\ call.fn = "LiveTrader.manage_positions:stop" /\ ~call.done
    /\ call' = [call EXCEPT !.done = TRUE,
                   !.out = LiveStop(call.args.entry_price, call.args.current_price)]
    /\ UNCHANGED <<prog, risk_per_trade, opens, btVars, brokerVars, liveVars, swingVars>>

CallCheckExitSignal ==
    /\ prog = "call"
    /\ call.fn = "ExitStrategy.check_exit_signal" /\ ~call.done
    /\ call' = [call EXCEPT !.done = TRUE,
                   !.out = check_exit_signal(call.args.df, call.args.entry_price,
                               call.args.stop_loss, call.args.take_profit)]
    /\ UNCHANGED <<prog, risk_per_trade, opens, btVars, brokerVars, liveVars, swingVars>>

CallEntryDecisions ==
    /\ prog = "call"
    /\ call.fn = "entry decision" /\ ~call.done
    /\ call' = [call EXCEPT !.done = TRUE, !.out = EntryDecisions(call.args)]
    /\ UNCHANGED <<prog, risk_per_trade, opens, btVars, brokerVars, liveVars, swingVars>>

CallExitDecisions ==
    /\ prog = "call"
    /\ call.fn = "exit decision" /\ ~call.done
    /\ call' = [call EXCEPT !.done = TRUE, !.out = ExitDecisions(call.args)]
    /\ UNCHANGED <<prog, risk_per_trade, opens, btVars, brokerVars, liveVars, swingVars>>

CallFindEntrySignal ==
    /\ prog = "call"
    /\ call.fn = "EntryStrategy.find_entry_signal" /\ ~call.done
    /\ call' = [call EXCEPT !.done = TRUE,
                   !.out = find_entry_signal(symbols[1], call.args.df,
                                             call.args.available_capital)]
    /\ UNCHANGED <<prog, risk_per_trade, opens, btVars, brokerVars, liveVars, swingVars>>

\* a window of RSIPeriod changes of the close: ups rises of rise dollars,
\* then downs falls of a dollar, then unchanged closes
RSIWindow(ups, downs, rise) ==
    [i \in 1..RSIPeriod |-> IF i <= ups THEN R(rise)
                            ELSE IF i <= ups + downs THEN R(-1) ELSE R(0)]

RSIWindows ==
    {RSIWindow(ups, downs, rise) :
        ups \in 0..RSIPeriod, downs \in 0..RSIPeriod, rise \in {1, 3}}

CallRSI ==
    /\ prog = "call"
    /\ call.fn = "RSI" /\ ~call.done
    /\ call' = [call EXCEPT !.done = TRUE, !.out = RSIValues(call.args)]
    /\ UNCHANGED <<prog, risk_per_trade, opens, btVars, brokerVars, liveVars, swingVars>>

\* the symbols of the positions handed to one call of sync_positions
SyncSymbols ==
    {"AAPL", "MSFT"}

\* last_known_positions before the call, and the positions the broker reports:
\* none, ten shares, or half a share of each symbol
SyncArgs ==
    [last_known : [SyncSymbols -> {None, [size |-> 10, entry_price |-> R(LadderEntry)]}],
     reported : [SyncSymbols -> {None,
                                 [qty |-> R(10), avg_entry_price |-> R(LadderEntry)],
                                 [qty |-> Rat(1, 2), avg_entry_price |-> R(LadderEntry)]}]]

CallSyncPositions ==
    /\ prog = "call"
    /\ call.fn = "LiveTrader.sync_positions" /\ ~call.done
    /\ call' = [call EXCEPT !.done = TRUE, !.out = sync_positions(call.args.reported)]
    /\ UNCHANGED <<prog, risk_per_trade, opens, btVars, brokerVars, liveVars, swingVars>>

CallGetCurrentData ==
    /\ prog = "call"
    /\ call.fn = "LiveTrader.get_current_data" /\ ~call.done
    /\ call' = [call EXCEPT !.done = TRUE, !.out = get_current_data(call.args)]
    /\ UNCHANGED <<prog, risk_per_trade, opens, btVars, brokerVars, liveVars, swingVars>>

\* what api.submit_order does when it is called
SubmitOutcomes ==
    {"ok", "raise"}

\* an execute_entry that tracks the position before it submits the order
execute_entry_tracks_first(positions, signal, submit) ==
    LET tracked == [positions EXCEPT ![signal.symbol] =
                       [entry_price |-> signal.entry_price, stop_loss |-> signal.stop_loss,
                        take_profit |-> signal.take_profit, size |-> signal.position_size]]
    IN  IF submit = "raise"
        THEN [ret |-> FALSE, positions |-> tracked, submitted |-> FALSE]
        ELSE [ret |-> TRUE, positions |-> tracked, submitted |-> TRUE]

\* SwingTrader.execute_entry: what it returns, RiskManager.positions after
\* it, and whether the broker has the order
execute_entry(positions, signal, submit) ==
    IF submit = "raise"
    THEN [ret |-> FALSE, positions |-> positions, submitted |-> FALSE]
    ELSE [ret |-> TRUE,
          positions |-> [positions EXCEPT ![signal.symbol] =
              [entry_price |-> signal.entry_price, stop_loss |-> signal.stop_loss,
               take_profit |-> signal.take_profit, size |-> signal.position_size]],
          submitted |-> TRUE]

\* SwingTrader.execute_exit
execute_exit(positions, signal, submit) ==
    IF RMGet(positions, signal.symbol) = None \/ submit = "raise"
    THEN [ret |-> FALSE, positions |-> positions, submitted |-> FALSE]
    ELSE [ret |-> TRUE, positions |-> [positions EXCEPT ![signal.symbol] = None],
          submitted |-> TRUE]

\* LiveTrader.execute_trade, positions being last_known_positions and price
\* the filled_avg_price of a fill
execute_trade(positions, symbol, side, qty, price, submit, statuses) ==
    IF qty <= 0 \/ submit = "raise"
    THEN [ret |-> FALSE, positions |-> positions, submitted |-> FALSE]
    ELSE IF WaitForFill(statuses).filled
    THEN [ret |-> TRUE,
          positions |-> IF side = "buy"
                        THEN [positions EXCEPT
                                 ![symbol] = [size |-> qty, entry_price |-> price]]
                        ELSE [positions EXCEPT ![symbol] = None],
          submitted |-> TRUE]
    ELSE [ret |-> FALSE, positions |-> positions, submitted |-> TRUE]

\* whether one of the status polls of an execute_trade raised
PollRaised(statuses) ==
    LET polls == WaitForFill(statuses).polls
    IN  polls >= 1 /\ statuses[polls] = "raise"

\* the position RiskManager tracks in the direct calls, and the signals for it
CallTracked ==
    [entry_price |-> R(LadderEntry), stop_loss |-> R(LadderEntry - 2),
     take_profit |-> calculate_take_profit(R(LadderEntry), R(LadderEntry - 2)),
     size |-> 10]

ExecuteEntryArgs ==
    [positions : {[s \in Symbols |-> None], [s \in Symbols |-> CallTracked]},
     signal : {[symbol |-> symbols[1], entry_price |-> R(LadderEntry + 3),
                stop_loss |-> R(LadderEntry), take_profit |-> R(LadderEntry + 11),
                position_size |-> qty] : qty \in {0, 5}},
     submit : SubmitOutcomes]

ExecuteExitArgs ==
    [positions : {[s \in Symbols |-> None], [s \in Symbols |-> CallTracked]},
     signal : {[symbol |-> key, exit_type |-> "stop_loss",
                exit_price |-> R(LadderEntry - 2)] : key \in {symbols[1], BarTimestamp}},
     submit : SubmitOutcomes]

\* a buy with nothing tracked or a sell of the tracked position, over every
\* course of the polls when the order is accepted
ExecuteTradeCall(side, qty, submit, statuses) ==
    [positions |-> IF side = "buy" THEN [s \in Symbols |-> None]
                   ELSE [s \in Symbols |-> [size |-> 5, entry_price |-> R(LadderEntry)]],
     symbol |-> symbols[1], side |-> side, qty |-> qty, price |-> R(LadderEntry + 3),
     submit |-> submit, statuses |-> statuses]

ExecuteTradeArgs ==
    {ExecuteTradeCall(side, 5, "ok", statuses) :
        side \in {"buy", "sell"}, statuses \in PollStatuses}
    \cup {ExecuteTradeCall(side, qty, submit, [i \in 1..MaxPollOutcomes |-> "filled"]) :
             side \in {"buy", "sell"}, qty \in {0, 5}, submit \in SubmitOutcomes}

ExecuteFns ==
    {"SwingTrader.execute_entry", "SwingTrader.execute_exit", "LiveTrader.execute_trade"}

CallExecute ==
    /\ prog = "call"
    /\ call.fn \in ExecuteFns /\ ~call.done
    /\ LET a == call.args
       IN  call' = [call EXCEPT !.done = TRUE, !.out =
               IF call.fn = "SwingTrader.execute_entry"
               THEN execute_entry(a.positions, a.signal, a.submit)
               ELSE IF call.fn = "SwingTrader.execute_exit"
               THEN execute_exit(a.positions, a.signal, a.submit)
               ELSE execute_trade(a.positions, a.symbol, a.side, a.qty, a.price,
                                  a.submit, a.statuses)]
    /\ UNCHANGED <<prog, risk_per_trade, opens, btVars, brokerVars, liveVars, swingVars>>

CallWaitForFill ==
    /\ prog = "call"
    /\ call.fn = "LiveTrader.execute_trade:polls" /\ ~call.done
    /\ call' = [call EXCEPT !.done = TRUE, !.out = WaitForFill(call.args)]
    /\ UNCHANGED <<prog, risk_per_trade, opens, btVars, brokerVars, liveVars, swingVars>>

\* manage_positions: the positions of the list it gets to, from a given
\* index on.  float(avg_entry_price) and int(qty) of a position are evaluated
\* inside the one try block that holds the whole loop: a position they raise
\* on ends the pass
RECURSIVE ManagedFrom(_, _)
ManagedFrom(positions, i) ==
    IF i > Len(positions) THEN {}
    ELSE IF positions[i].qty.d # 1 THEN {}
    ELSE {i} \cup ManagedFrom(positions, i + 1)

\* manage_positions: the indices of the positions one pass manages
ManagedPositions(positions) ==
    ManagedFrom(positions, 1)

\* the lists api.list_positions() gives to one pass of manage_positions: two
\* positions, each of ten shares or of half a share
ManageArgs ==
    [1..2 -> [qty : {R(10), Rat(1, 2)}, avg_entry_price : {R(LadderEntry)}]]

CallManagedPositions ==
    /\ prog = "call"
    /\ call.fn = "LiveTrader.manage_positions" /\ ~call.done
    /\ call' = [call EXCEPT !.done = TRUE, !.out = ManagedPositions(call.args)]
    /\ UNCHANGED <<prog, risk_per_trade, opens, btVars, brokerVars, liveVars, swingVars>>

\* bars of a replayed tape
MaxTape == 2

\* the bars a tape is made of: a bar that meets the entry condition after a
\* close of MinPrice, a quiet bar, a bar whose low is at the stop of that
\* entry, a bar whose high is above its take profit, and a bar the loop body
\* raises on
ReplayBars ==
    {[Low |-> R(MinPrice + 2), Close |-> R(MinPrice + 2), High |-> R(MinPrice + 2),
      MA_10 |-> R(MinPrice), MA_20 |-> R(MinPrice - 1), raises |-> FALSE],
     [Low |-> R(MinPrice + 2), Close |-> R(MinPrice + 2), High |-> R(MinPrice + 2),
      MA_10 |-> R(MaxPrice), MA_20 |-> R(MinPrice), raises |-> FALSE],
     [Low |-> R(MinPrice - 1), Close |-> R(MinPrice), High |-> R(MinPrice + 2),
      MA_10 |-> R(MaxPrice), MA_20 |-> R(MinPrice), raises |-> FALSE],
     [Low |-> R(MinPrice + 2), Close |-> R(MinPrice + 2), High |-> R(MaxPrice + 4),
      MA_10 |-> R(MaxPrice), MA_20 |-> R(MinPrice), raises |-> FALSE],
     [Low |-> R(MinPrice), Close |-> R(MinPrice), High |-> R(MinPrice),
      MA_10 |-> R(MinPrice), MA_20 |-> R(MinPrice), raises |-> TRUE]}

\* one tape per symbol of the run
ReplayArgs ==
    [risk : risk_levels, tapes : [1..Len(BTSymbols) -> [1..MaxTape -> ReplayBars]]]

\* Backtesters that differ in capital and in risk_per_trade
SingleSymbolSelves ==
    {[initial_capital |-> R(INITIAL_CAPITAL), capital |-> cap,
      risk_per_trade |-> risk, all_trades |-> <<>>] :
        cap \in {R(INITIAL_CAPITAL), R(SmallCapital)}, risk \in RiskLevels}

\* a Backtester in the middle of its life, and one symbol's tape
SingleSymbolArgs ==
    [self : SingleSymbolSelves, tape : [1..MaxTape -> ReplayBars]]

CallRunSingleSymbol ==
    /\ prog = "call"
    /\ call.fn = "Backtester.run_single_symbol" /\ ~call.done
    /\ call' = [call EXCEPT !.done = TRUE,
                   !.out = run_single_symbol(call.args.self, call.args.tape)]
    /\ UNCHANGED <<prog, risk_per_trade, opens, btVars, brokerVars, liveVars, swingVars>>

\* a run of one symbol
ReplayAgainArgs ==
    [risk : risk_levels, tapes : [1..1 -> [1..MaxTape -> ReplayBars]]]

CallReplayAgain ==
    /\ prog = "call"
    /\ call.fn = "Backtester.run again" /\ ~call.done
    /\ call' = [call EXCEPT !.done = TRUE,
                   !.out = BTReplayAgain(R(INITIAL_CAPITAL), call.args.risk,
                                         call.args.tapes)]
    /\ UNCHANGED <<prog, risk_per_trade, opens, btVars, brokerVars, liveVars, swingVars>>

CallReplayTwice ==
    /\ prog = "call"
    /\ call.fn = "Backtester.run twice" /\ ~call.done
    /\ call' = [call EXCEPT !.done = TRUE,
                   !.out = BTReplayTwice(R(INITIAL_CAPITAL), call.args.risk,
                                         call.args.tapes)]
    /\ UNCHANGED <<prog, risk_per_trade, opens, btVars, brokerVars, liveVars, swingVars>>

(***************************************************************************)
(* The runs.                                                               *)
(***************************************************************************)
\* a LiveTrader is built with risk_per_trade = 0.02 unless --risk says otherwise
DefaultRisk ==
    Rat(2, 100)

BTIdle ==
    /\ capital = R(INITIAL_CAPITAL)
    /\ all_trades = <<>>
    /\ bt = BTLocals0
    /\ btI = 0
    /\ btObs = BTNoObs
    /\ btRun = BTRun0

BrokerIdle ==
    /\ brokerPos = [s \in Symbols |-> NoPosition]
    /\ brokerOrders = {}
    /\ fillReported = [s \in Symbols |-> [buy |-> 0, sell |-> 0]]

LiveIdle ==
    /\ last_known_positions = [s \in Symbols |-> None]
    /\ livePc = "cycle"
    /\ liveCycle = 0
    /\ livePositions = {}
    /\ liveIdx = 1
    /\ liveTrack = [s \in Symbols |-> NoTrack]
    /\ liveObs = LiveNoObs
    /\ liveClock = NoClock
    /\ liveMain \in IF prog = "run_live_trader" THEN LiveMains
                    ELSE {LiveMain0(FALSE, 0)}

SwingIdle ==
    /\ rmPositions = [s \in Symbols |-> None]
    /\ swingPc = "manage"
    /\ swingObs = SwingNoObs

InitCall ==
    /\ prog = "call"
    /\ \/ \E a \in SizeArgs : call = Pending("Backtester.calculate_position_size", a)
       \/ \E a \in LiveSizeArgs : call = Pending("LiveTrader.calculate_position_size", a)
       \/ \E a \in ForwardPositionArgs :
              call = Pending("ForwardTester.check_for_signals:position", a)
       \/ \E a \in ForwardEntryArgs :
              call = Pending("ForwardTester.check_for_signals:entry", a)
       \/ \E a \in {"empty", "raises", "bars"} :
              call = Pending("ForwardTester.check_for_signals", a)
       \/ \E a \in LiveStopArgs : call = Pending("LiveTrader.manage_positions:stop", a)
       \/ \E a \in ExitSignalArgs : call = Pending("ExitStrategy.check_exit_signal", a)
       \/ \E a \in DecisionEntryArgs : call = Pending("entry decision", a)
       \/ \E a \in DecisionExitArgs : call = Pending("exit decision", a)
       \/ \E a \in SyncArgs : call = Pending("LiveTrader.sync_positions", a)
       \/ \E a \in FetchOutcomes : call = Pending("LiveTrader.get_current_data", a)
       \/ \E a \in PollStatuses : call = Pending("LiveTrader.execute_trade:polls", a)
       \/ \E a \in ExecuteEntryArgs : call = Pending("SwingTrader.execute_entry", a)
       \/ \E a \in ExecuteExitArgs : call = Pending("SwingTrader.execute_exit", a)
       \/ \E a \in ExecuteTradeArgs : call = Pending("LiveTrader.execute_trade", a)
       \/ \E a \in ManageArgs : call = Pending("LiveTrader.manage_positions", a)
       \/ \E a \in ReplayArgs : call = Pending("Backtester.run twice", a)
       \/ \E a \in ReplayAgainArgs : call = Pending("Backtester.run again", a)
       \/ \E a \in SingleSymbolArgs : call = Pending("Backtester.run_single_symbol", a)
       \/ \E a \in EntrySizingArgs : call = Pending("EntryStrategy.find_entry_signal", a)
       \/ \E a \in RSIWindows : call = Pending("RSI", a)
    /\ risk_per_trade = DefaultRisk
    /\ btPrev = R(MinPrice)
    /\ opens = [s \in AllSymbols |-> 0]
    /\ BTIdle
    /\ BrokerIdle
    /\ LiveIdle
    /\ SwingIdle

InitBacktest ==
    /\ call = NoCall
    /\ prog = "run_backtest"
    /\ risk_per_trade \in risk_levels
    /\ btPrev = R(MinPrice)
    /\ opens = [s \in AllSymbols |-> 0]
    /\ BTIdle
    /\ BrokerIdle
    /\ LiveIdle
    /\ SwingIdle

InitLive ==
    /\ call = NoCall
    /\ prog = "run_live_trader"
    /\ risk_per_trade = DefaultRisk
    /\ btPrev = R(MinPrice)
    /\ opens = [s \in AllSymbols |-> 0]
    /\ BTIdle
    /\ BrokerIdle
    /\ LiveIdle
    /\ SwingIdle

InitSwing ==
    /\ call = NoCall
    /\ prog = "main"
    /\ risk_per_trade = RISK_PER_TRADE
    /\ btPrev = R(MinPrice)
    /\ opens = [s \in AllSymbols |-> 0]
    /\ BTIdle
    /\ BrokerIdle
    /\ LiveIdle
    /\ SwingIdle

Init ==
    \/ InitBacktest
    \/ InitLive
    \/ InitSwing
    \/ InitCall

Next ==
    \/ BTStartSymbol
    \/ BTFlatBar
    \/ BTOpenBar
    \/ BTBarError
    \/ BTEndSymbol
    \/ BrokerFill
    \/ LiveCycleStart
    \/ LiveManage
    \/ LiveScan
    \/ MonitorStep
    \/ LiveInterrupt
    \/ LiveDurationElapses
    \/ LiveMainFinish
    \/ SwingManage
    \/ SwingEntries
    \/ CallBTCalculatePositionSize
    \/ CallLiveCalculatePositionSize
    \/ CallForwardPositionBranch
    \/ CallForwardEntryBranch
    \/ CallForwardChecked
    \/ CallLiveStop
    \/ CallCheckExitSignal
    \/ CallEntryDecisions
    \/ CallExitDecisions
    \/ CallSyncPositions
    \/ CallGetCurrentData
    \/ CallWaitForFill
    \/ CallExecute
    \/ CallManagedPositions
    \/ CallReplayTwice
    \/ CallReplayAgain
    \/ CallRunSingleSymbol
    \/ CallFindEntrySignal
    \/ CallRSI

Spec ==
    Init /\ [][Next]_vars

(***************************************************************************)
(* Properties.                                                             *)
(***************************************************************************)
\* a position worth size * entry_price stays within cap and within
\* fraction * cap
WithinCaps(size, entry_price, cap, fraction) ==
    /\ RLeq(RMul(size, entry_price), cap)
    /\ RLeq(RMul(size, entry_price), RMul(cap, fraction))

\* C1: whenever a position is sized with |entry - stop| > 0 (by
\* Backtester.calculate_position_size, by LiveTrader.calculate_position_size
\* or by the inline sizing of run_single_symbol's entry), size * entry_price
\* is at most the capital and at most the capital times the maximal
\* fraction of capital per position (one tenth in both sizers)
C1_SizeWithinCapital ==
    /\ (prog = "run_backtest" /\ btObs.event = "entry")
          => WithinCaps(bt.position_size, bt.position, capital, BTMaxPositionFraction)
    /\ (call.fn = "Backtester.calculate_position_size" /\ call.done
        /\ call.args.entry_price # call.args.stop_loss)
          => WithinCaps(call.out, call.args.entry_price, call.args.capital,
                        BTMaxPositionFraction)
    /\ (call.fn = "LiveTrader.calculate_position_size" /\ call.done
        /\ call.args.current_price # call.args.stop_loss)
          => WithinCaps(R(call.out), call.args.current_price, call.args.equity,
                        Rat(1, 10))

\* a backtest entry was sized just now
C1_Witness ==
    /\ prog = "run_backtest" /\ btObs.event = "entry"
    /\ RLt(capital, RMul(bt.position_size, bt.position))

\* C2: across two successive updates of the same open position the stop the
\* engine applies never falls: the stop of a live manage_positions pass is at
\* least the stop of the pass before, and the trailing_stop the forward
\* tester's position branch leaves is at least the one it found
C2_StopNeverFalls ==
    /\ (prog = "run_live_trader" /\ liveObs.event = "managed"
        /\ liveObs.prev_stop # None)
          => RLeq(liveObs.prev_stop, liveObs.stop)
    /\ (call.fn = "ForwardTester.check_for_signals:position" /\ call.done)
          => RLeq(call.args.trailing_stop, call.out.position.trailing_stop)

\* C3: for each symbol, no position is opened while one is open: at most one
\* open event (backtest entry, filled buy order) since the symbol was last flat
C3_NoSecondOpen ==
    \A s \in AllSymbols : opens[s] <= 1

\* C4: tracked position state (last_known_positions, RiskManager.positions)
\* gains a symbol only in a step in which a buy order for it is reported
\* filled and loses it only in a step in which a sell order for it is
\* reported filled
C4_TrackedOnlyOnFill ==
    [][\A s \in Symbols :
          /\ (last_known_positions[s] = None /\ last_known_positions'[s] # None)
                => fillReported'[s].buy > fillReported[s].buy
          /\ (rmPositions[s] = None /\ rmPositions'[s] # None)
                => fillReported'[s].buy > fillReported[s].buy
          /\ (last_known_positions[s] # None /\ last_known_positions'[s] = None)
                => fillReported'[s].sell > fillReported[s].sell
          /\ (rmPositions[s] # None /\ rmPositions'[s] = None)
                => fillReported'[s].sell > fillReported[s].sell]_vars

\* the SwingTrader tracks a position no fill was ever reported for
C4_Witness ==
    \E s \in Symbols :
        rmPositions[s] # None /\ fillReported[s].buy = 0 /\ brokerPos[s].qty = 0

\* the record run_single_symbol appended last
LastTrade ==
    all_trades[Len(all_trades)]

\* C5: a stop-loss exit (bar low <= stop) fills at the stored stop exactly,
\* whatever the low, and its profit is (stop - entry) * size: in the backtest
\* replay, in ExitStrategy.check_exit_signal (directly called and in
\* SwingTrader.manage_positions) and in the forward tester's position branch
C5_StopExitAtStop ==
    /\ (prog = "run_backtest" /\ btObs.event # "none" /\ btObs.low # None
        /\ RLeq(btObs.low, btObs.stop))
          => /\ btObs.event = "exit"
             /\ LastTrade.reason = "Stop Loss"
             /\ LastTrade.exit = btObs.stop
             /\ LastTrade.profit =
                   RMul(RSub(btObs.stop, LastTrade.entry), LastTrade.size)
             /\ LastTrade.capital_after = capital
    /\ (call.fn = "ExitStrategy.check_exit_signal" /\ call.done
        /\ call.args.df.len >= 2 /\ RLeq(call.args.df.low, call.args.stop_loss))
          => /\ call.out.exit_type = "stop_loss"
             /\ call.out.exit_price = call.args.stop_loss
    /\ (prog = "main" /\ swingObs.signal.exit_type = "stop_loss")
          => swingObs.signal.exit_price = swingObs.stop_loss
    /\ (prog = "main" /\ swingObs.low # None /\ swingObs.signal.exit_type # "none"
        /\ RLeq(swingObs.low, swingObs.stop_loss))
          => swingObs.signal.exit_type = "stop_loss"
    /\ (call.fn = "ForwardTester.check_for_signals:position" /\ call.done
        /\ RLeq(call.args.Low, call.args.trailing_stop))
          => /\ call.out.type = "stop_loss"
             /\ call.out.price = call.args.trailing_stop

\* a backtest bar whose low is strictly below the stop closed the position
C5_Witness ==
    /\ prog = "run_backtest" /\ btObs.event = "exit"
    /\ RLt(btObs.low, btObs.stop)
    /\ LastTrade.exit = btObs.stop

LiveStopBefore ==
    IF liveObs.prev_stop # None THEN liveObs.prev_stop ELSE liveObs.original_stop

\* C7: the exit triggers of a bar are evaluated against the stop as it stood
\* before that bar's escalation: a stop exit needs low <= the stop before
\* the escalation, and a bar that exits escalates nothing
C7_ExitBeforeEscalation ==
    /\ (prog = "run_live_trader" /\ liveObs.event = "managed" /\ liveObs.exit = "stop")
          => RLeq(liveObs.low, LiveStopBefore)
    /\ (call.fn = "ForwardTester.check_for_signals:position" /\ call.done)
          => /\ call.out.type = "stop_loss"
                   <=> RLeq(call.args.Low, call.args.trailing_stop)
             /\ call.out.type # "none"
                   => call.out.position.trailing_stop = call.args.trailing_stop

\* the floors of the ladder for a position with this entry, highest price
\* seen and stop
LadderHolds(entry, highest, stop) ==
    /\ RLeq(RMul(entry, Rat(103, 100)), highest) => RLeq(entry, stop)
    /\ RLeq(RMul(entry, Rat(105, 100)), highest)
          => RLeq(RMul(highest, Rat(97, 100)), stop)
    /\ RLeq(RMul(entry, Rat(110, 100)), highest)
          => RLeq(RMul(highest, Rat(95, 100)), stop)

\* C8: after every bar update of a position that stays open the stop is at
\* least the floor of every ladder rung the highest price seen since entry
\* has reached (entry at +3%, 0.97 * highest at +5%, 0.95 * highest at
\* +10%), in the backtest, in the live loop and in the forward check
C8_LadderFloor ==
    /\ (prog = "run_backtest" /\ btObs.event = "hold")
          => LadderHolds(bt.position, bt.highest_price, bt.trailing_stop)
    /\ (prog = "run_live_trader" /\ liveObs.event = "managed" /\ liveObs.exit = "none")
          => LadderHolds(liveObs.entry, liveObs.highest, liveObs.stop)
    /\ (call.fn = "ForwardTester.check_for_signals:position" /\ call.done
        /\ call.out.type = "none" /\ RLt(call.args.highest_price, call.args.High))
          => LadderHolds(call.out.position.entry, call.out.position.highest_price,
                         call.out.position.trailing_stop)

\* the greatest element of a finite non-empty set of amounts
RMaxSet(S) ==
    CHOOSE x \in S : \A y \in S : RLeq(y, x)

\* the stop a ladder starts from and the candidate of every rung the price
\* satisfies
LadderCandidates(start, entry, price) ==
    {start}
    \cup (IF RLeq(RMul(entry, Rat(103, 100)), price) THEN {entry} ELSE {})
    \cup (IF RLeq(RMul(entry, Rat(105, 100)), price)
          THEN {RMul(price, Rat(97, 100))} ELSE {})
    \cup (IF RLeq(RMul(entry, Rat(110, 100)), price)
          THEN {RMul(price, Rat(95, 100))} ELSE {})

C10_TwoOfThreeVote ==
    /\ (call.fn = "ForwardTester.check_for_signals:entry" /\ call.done)
          => /\ call.out.result = "entry" <=> ForwardConditionsMet(call.args) >= 2
             /\ call.out.result = "entry"
                   => /\ call.out.entry_price = call.args.Close
                      /\ call.out.stop_loss = RMul(call.args.Close, Rat(98, 100))
    /\ (call.fn = "ForwardTester.check_for_signals" /\ call.done /\ call.args = "bars")
          => call.out = Symbols

\* the entry branch was run on a frame on which exactly two conditions hold
C10_Witness ==
    /\ call.fn = "ForwardTester.check_for_signals:entry" /\ call.done
    /\ ForwardConditionsMet(call.args) = 2

(***************************************************************************)
(* C11: given the same bar (and, for an open position, the same entry and  *)
(* the same initial stop), the backtest, the forward test and the live     *)
(* engine take the same decision: all three open a position or none does,  *)
(* and all three close the position for the same reason or none does.      *)
(***************************************************************************)
C11_SameDecisions ==
    (prog = "call" /\ call.done /\ call.fn \in {"entry decision", "exit decision"})
        => (call.out.backtest = call.out.live /\ call.out.live = call.out.forward)

\* a bar on which the backtest opens a position and the live engine does not
C11_Witness ==
    /\ prog = "call" /\ call.done /\ call.fn = "entry decision"
    /\ call.out.backtest /\ ~call.out.live

(***************************************************************************)
(* C12: no position of size zero or less is ever stored, and no order is   *)
(* sent for a computed size of zero or less: every position SwingTrader,   *)
(* LiveTrader and the backtest hold has size > 0, every order at the       *)
(* broker has qty > 0, and every EntrySignal handed to execute_entry has   *)
(* position_size > 0.                                                      *)
(***************************************************************************)
C12_NoZeroSizePosition ==
    /\ \A s \in Symbols :
        /\ rmPositions[s] # None => rmPositions[s].size > 0
        /\ last_known_positions[s] # None => last_known_positions[s].size > 0
    /\ \A o \in brokerOrders : o.qty > 0
    /\ (prog = "main" /\ swingObs.entry # NoEntrySignal)
          => swingObs.entry.position_size > 0
    /\ (prog = "run_backtest" /\ bt.position # None) => bt.position_size.n > 0

\* execute_entry was handed a signal of size 0 and the broker refused the order
C12_Witness ==
    /\ prog = "main"
    /\ swingObs.entry # NoEntrySignal /\ swingObs.entry.position_size = 0
    /\ brokerOrders = {}

(***************************************************************************)
(* C13: when sync_positions has run, alone or at the end of a successful   *)
(* reconnect, the symbols tracked in last_known_positions are exactly the  *)
(* symbols the broker reported a position for, whatever was tracked before.*)
(***************************************************************************)
C13_SyncMatchesBroker ==
    /\ [](prog = "call" /\ call.done /\ call.fn = "LiveTrader.sync_positions"
            => {s \in SyncSymbols : call.out[s] # None}
                 = {s \in SyncSymbols : call.args.reported[s] # None})
    /\ [][(prog = "run_live_trader" /\ liveObs'.event = "reconnected"
           /\ liveCycle' = liveCycle + 1)
            => {s \in Symbols : last_known_positions'[s] # None}
                 = {s \in Symbols : brokerPos'[s].qty > 0}]_vars

\* the broker reported a position that sync_positions left out
C13_Witness ==
    /\ prog = "call" /\ call.done /\ call.fn = "LiveTrader.sync_positions"
    /\ \E s \in SyncSymbols : call.args.reported[s] # None /\ call.out[s] = None

(***************************************************************************)
(* C14: Backtester.capital changes only on a bar that closes the position, *)
(* and then by exactly (exit_price - entry_price) * position_size; entry   *)
(* bars, holding bars, flat bars, bars that raise, and the start and end   *)
(* of a symbol's replay leave it as it was.                                *)
(***************************************************************************)
C14_CapitalOnlyOnExit ==
    [][prog = "run_backtest" =>
          IF btI' = btI + 1 /\ bt.position # None /\ bt'.position = None
          THEN /\ all_trades' # <<>>
               /\ capital' = RAdd(capital,
                      RMul(RSub(all_trades'[Len(all_trades')].exit, bt.position),
                           bt.position_size))
          ELSE capital' = capital]_vars

\* an exit bar has changed the capital
C14_Witness ==
    /\ prog = "run_backtest" /\ btObs.event = "exit"
    /\ capital # R(INITIAL_CAPITAL)
    /\ capital = RAdd(R(INITIAL_CAPITAL), LastTrade.profit)

(***************************************************************************)
(* C15: every bar of the backtest that closes the open position appends    *)
(* exactly one record to all_trades, holding the position's entry price,   *)
(* the exit price, the size, the exit reason and the trade's profit; no    *)
(* other step appends, and no step changes or removes a record.            *)
(***************************************************************************)
C15_OneRecordPerExit ==
    [][prog = "run_backtest" =>
          IF btI' = btI + 1 /\ bt.position # None /\ bt'.position = None
          THEN /\ Len(all_trades') = Len(all_trades) + 1
               /\ SubSeq(all_trades', 1, Len(all_trades)) = all_trades
               /\ LET trade == all_trades'[Len(all_trades')]
                  IN  /\ trade.entry = bt.position
                      /\ trade.size = bt.position_size
                      /\ trade.reason \in {"Stop Loss", "Take Profit"}
                      /\ trade.exit = IF trade.reason = "Stop Loss"
                                      THEN bt.trailing_stop ELSE bt.take_profit
                      /\ trade.profit = RSub(capital', capital)
          ELSE all_trades' = all_trades]_vars

\* two positions were closed and all_trades holds the two records in order
C15_Witness ==
    /\ prog = "run_backtest" /\ btObs.event = "exit"
    /\ Len(all_trades) = 2
    /\ all_trades[2].capital_after = capital
    /\ all_trades[1].capital_after = RSub(capital, all_trades[2].profit)

\* the capital after the first k closed trades of the run
CapitalAfter(k) ==
    IF k = 0 THEN R(INITIAL_CAPITAL) ELSE all_trades[k].capital_after

\* the largest capital among the first k + 1 values the capital has taken
HighestCapital(k) ==
    RMaxSet({CapitalAfter(j) : j \in 0..k})

\* the largest relative fall, in percent, from the highest capital so far,
\* over all the values the capital has taken
LargestDrawdown ==
    RMaxSet({RMul(RDiv(RSub(HighestCapital(k), CapitalAfter(k)), HighestCapital(k)),
                  R(100)) : k \in 0..Len(all_trades)})

(***************************************************************************)
(* C16: peak_capital of Backtester.run is at all times the largest value   *)
(* the capital has taken so far, and when run has gone through its symbols *)
(* its max_drawdown is the largest relative fall from the running peak     *)
(* over all the values the capital took, trades inside one symbol's replay *)
(* included.                                                               *)
(***************************************************************************)
C16_PeakAndDrawdown ==
    prog = "run_backtest" =>
        /\ btRun.peak_capital = HighestCapital(Len(all_trades))
        /\ btRun.pc = "done" => btRun.max_drawdown = LargestDrawdown

\* run is through its symbols, its peak is the true one, and the drawdown it
\* reports is smaller than the largest fall the capital went through
C16_Witness ==
    /\ prog = "run_backtest" /\ btRun.pc = "done"
    /\ btRun.peak_capital = HighestCapital(Len(all_trades))
    /\ RLt(btRun.max_drawdown, LargestDrawdown)

C18_LoopSurvivesFailedReconnect ==
    prog = "run_live_trader" /\ liveMain.stop = "none"
        => livePc \in {"cycle", "manage", "scan"}

\* run has left its loop after a failed reconnect, with a position still open
\* at the broker
C18_Witness ==
    /\ prog = "run_live_trader"
    /\ livePc = "exited" /\ liveObs.event = "exited"
    /\ \E s \in Symbols : brokerPos[s].qty > 0

(***************************************************************************)
(* C19: an error on one bar or one symbol stops neither the run nor the    *)
(* work on the others: a bar of the backtest that raises changes nothing   *)
(* and the replay goes on; Backtester.run ends with one result per symbol, *)
(* in the order of the symbols; and a pass of manage_positions manages     *)
(* every position whose own processing does not raise.                     *)
(***************************************************************************)
C19_ErrorsAreIsolated ==
    /\ [](prog = "run_backtest" /\ btRun.pc = "done"
            => /\ Len(btRun.results) = Len(BTSymbols)
               /\ \A i \in 1..Len(BTSymbols) : btRun.results[i].symbol = BTSymbols[i])
    /\ [][(prog = "run_backtest" /\ btObs'.event = "error" /\ btI' = btI + 1)
            => /\ btRun'.pc = "replay"
               /\ UNCHANGED <<capital, all_trades, bt, btRun>>]_vars
    /\ [](prog = "call" /\ call.done /\ call.fn = "LiveTrader.manage_positions"
            => \A i \in 1..Len(call.args) :
                   call.args[i].qty.d = 1 => i \in call.out)

\* a pass of manage_positions that left out the second position because the
\* first one raised
C19_Witness ==
    /\ prog = "call" /\ call.done /\ call.fn = "LiveTrader.manage_positions"
    /\ call.args[1].qty.d # 1 /\ call.args[2].qty.d = 1
    /\ call.out = {}

(***************************************************************************)
(* C20: a symbol with fewer bars than the lookback is skipped.  In the     *)
(* backtest a symbol with too little data gets a result of zero trades and *)
(* changes neither capital nor all_trades nor any position, and the run    *)
(* goes on; the live engine produces no entry and no exit from a frame of  *)
(* fewer than 20 bars; EntryStrategy produces no signal from fewer than    *)
(* 200 bars.                                                               *)
(***************************************************************************)
C20_ShortHistorySkipped ==
    /\ [][(prog = "run_backtest" /\ btObs'.event = "skipped" /\ btRun' # btRun)
            => /\ UNCHANGED <<capital, all_trades, opens>>
               /\ btRun'.results[Len(btRun'.results)].trades = 0
               /\ btRun'.pc \in {"symbol", "done"}]_vars
    /\ [](prog = "main" =>
            \A df \in EntryFrames(LivePrices), value \in PortfolioValues :
                df.len < EntryHistory
                  => find_entry_signal(symbols[1], df, value) = NoEntrySignal)
    /\ [](prog = "run_live_trader" =>
            \A price \in LivePrices, ma10 \in MALevels, rsi \in RSILevels,
               change \in PriceChangeLevels :
                ~check_entry_conditions(19, price, ma10, R(0), rsi, change))
    /\ [][(prog = "run_live_trader" /\ livePc = "manage" /\ livePc' = "scan"
           /\ liveObs'.event = "managed" /\ liveObs'.bars < 20)
            => /\ liveObs'.exit = "none"
               /\ UNCHANGED <<brokerVars, last_known_positions>>]_vars

\* manage_positions sold a position on a frame of fewer than 20 bars
C20_Witness ==
    /\ prog = "run_live_trader"
    /\ liveObs.event = "managed" /\ liveObs.bars < 20 /\ liveObs.exit = "stop"
    /\ \E s \in Symbols : fillReported[s].sell > 0 /\ brokerPos[s].qty = 0

\* the state one bar of the replay works on, as BTBar takes it
BTReplayState(cap, trades, locals, prev) ==
    [self |-> [initial_capital |-> R(INITIAL_CAPITAL), capital |-> cap,
               risk_per_trade |-> risk_per_trade, all_trades |-> trades],
     locals |-> locals, prev |-> prev]

\* the bars that fit what the replay loop reported of the bar it processed
BarsObserved(obs, close) ==
    IF obs.event = "error"
    THEN {[Low |-> close, Close |-> close, High |-> close, MA_10 |-> close,
           MA_20 |-> close, raises |-> TRUE]}
    ELSE IF obs.event \in {"entry", "flat"}
    THEN {[Low |-> obs.close, Close |-> obs.close, High |-> obs.close,
           MA_10 |-> ma10, MA_20 |-> ma20, raises |-> FALSE] :
             ma10 \in MALevels, ma20 \in MALevels}
    ELSE {[Low |-> obs.low, Close |-> obs.close, High |-> obs.high,
           MA_10 |-> obs.close, MA_20 |-> obs.close, raises |-> FALSE]}

AnnouncedMaxFraction ==
    Rat(2, 10)

\* C22: when the value of the risk-based size exceeds capital times the
\* maximum fraction of capital per position, the sizer returns capital times
\* that fraction over the entry price, the fraction being the 20% the sizer
\* announces: 2 units for capital 1000, risk 0.02, entry 100 and stop 98
C22_CapAtAnnouncedFraction ==
    call.fn = "Backtester.calculate_position_size" /\ call.done
        => LET a == call.args
               risk_per_share == RAbs(RSub(a.entry_price, a.stop_loss))
               raw_value == RMul(RDiv(RMul(a.capital, a.risk), risk_per_share),
                                 a.entry_price)
               cap_value == RMul(a.capital, AnnouncedMaxFraction)
           IN  risk_per_share # R(0) /\ RLt(cap_value, raw_value)
                   => call.out = RDiv(cap_value, a.entry_price)

\* the sizer was called with the scenario's capital 1000, risk 0.02, entry 100
\* and stop 98, and returned the size capped at a tenth of the capital, 1 unit
C22_Witness ==
    /\ call.fn = "Backtester.calculate_position_size" /\ call.done
    /\ call.args = [capital |-> R(INITIAL_CAPITAL), risk |-> Rat(2, 100),
                    entry_price |-> R(LadderEntry), stop_loss |-> R(LadderEntry - 2)]
    /\ call.out = R(1)

RMin(a, b) ==
    IF RLeq(a, b) THEN a ELSE b

\* C23: each sizing step can only reduce the size of the step before it: the
\* size returned is never larger than the risk-based size capped by the limits
\* on the position's value, and it is exactly 0 when that capped size is below
\* the minimum tradable size (0.01 shares in the backtest, one share live)
C23_StepsOnlyShrink ==
    /\ call.fn = "Backtester.calculate_position_size" /\ call.done
         /\ call.args.entry_price # call.args.stop_loss
        => LET a == call.args
               raw == RDiv(RMul(a.capital, a.risk),
                           RAbs(RSub(a.entry_price, a.stop_loss)))
               capped == RMin(raw, RDiv(RMul(a.capital, BTMaxPositionFraction),
                                        a.entry_price))
           IN  /\ RLeq(call.out, capped)
               /\ RLt(capped, BTMinPositionSize) => call.out = R(0)
    /\ call.fn = "LiveTrader.calculate_position_size" /\ call.done
         /\ RLeq(RMul(call.args.current_price, Rat(1, 100)),
                 RAbs(RSub(call.args.current_price, call.args.stop_loss)))
        => LET a == call.args
               raw == RDiv(RMul(a.equity, a.risk),
                           RAbs(RSub(a.current_price, a.stop_loss)))
               capped == RMin(RMin(raw, RDiv(RMul(a.buying_power, Rat(95, 100)),
                                             a.current_price)),
                              RDiv(RMul(a.equity, Rat(1, 10)), a.current_price))
           IN  /\ RLeq(R(call.out), capped)
               /\ RLt(capped, R(1)) => call.out = 0

\* the backtest sizer was called with a capital of one dollar, whose capped
\* size is below 0.01 shares, and returned 0.01 shares
C23_Witness ==
    /\ call.fn = "Backtester.calculate_position_size" /\ call.done
    /\ call.args.capital = R(SmallCapital)
    /\ call.args.entry_price # call.args.stop_loss
    /\ RLt(RDiv(RMul(call.args.capital, BTMaxPositionFraction), call.args.entry_price),
           BTMinPositionSize)
    /\ call.out = BTMinPositionSize

\* is the distance from the entry price to the stop below 1% of the entry price
StopTooTight(entry_price, stop_loss) ==
    RLt(RAbs(RSub(entry_price, stop_loss)), RMul(entry_price, Rat(1, 100)))

\* C24: whenever the distance between entry price and stop is below 1% of the
\* entry price, zero included, every sizing path computes the size from a risk
\* per unit of 2% of the entry price: the live sizer and the backtest sizer
\* return what they return for a stop 2% below the entry, and the entry
\* strategy returns a signal sized by the risk amount over 2% of the entry
C24_TightStopClamped ==
    /\ call.fn = "LiveTrader.calculate_position_size" /\ call.done
         /\ StopTooTight(call.args.current_price, call.args.stop_loss)
        => call.out = LiveCalculatePositionSize(call.args.equity,
                          call.args.buying_power, call.args.risk, call.args.current_price,
                          RMul(call.args.current_price, Rat(98, 100)))
    /\ call.fn = "Backtester.calculate_position_size" /\ call.done
         /\ StopTooTight(call.args.entry_price, call.args.stop_loss)
        => call.out = BTCalculatePositionSize(call.args.capital, call.args.risk,
                          call.args.entry_price,
                          RMul(call.args.entry_price, Rat(98, 100)))
    /\ call.fn = "EntryStrategy.find_entry_signal" /\ call.done
         /\ StopTooTight(call.args.df.close, call.args.df.stop_loss)
        => /\ call.out.symbol = symbols[1]
           /\ call.out.position_size =
                  RInt(RDiv(RMul(call.args.available_capital, RISK_PER_TRADE),
                            RMul(call.args.df.close, Rat(2, 100))))

\* find_entry_signal was called with a stop half a dollar below a close of
\* LadderEntry and sized the position by the risk amount over that half dollar
C24_Witness ==
    /\ call.fn = "EntryStrategy.find_entry_signal" /\ call.done
    /\ call.args.df.stop_loss = TightStop
    /\ call.args.available_capital = R(AccountEquity)
    /\ call.out.position_size = RInt(RMul(RMul(R(AccountEquity), RISK_PER_TRADE), R(2)))

\* C25: when the bar of an open position has its low above the stop and its
\* high below the take profit, and its close is below the moving average, the
\* position exits on that bar with reason trend exit at the close, in every
\* execution context: the backtest, the live engine and the forward test
C25_TrendExitEverywhere ==
    /\ call.fn = "exit decision" /\ call.done
         /\ RLt(call.args.trailing_stop, call.args.Low)
         /\ RLt(call.args.High, RMul(call.args.entry, TakeProfitFactor))
         /\ RLt(call.args.Close, call.args.MA_20)
        => /\ call.out.backtest = "trend"
           /\ call.out.live = "trend"
           /\ call.out.forward = "trend"
    /\ call.fn = "ForwardTester.check_for_signals:position" /\ call.done
         /\ RLt(call.args.trailing_stop, call.args.Low)
         /\ RLt(call.args.Close, call.args.MA_20)
        => /\ call.out.type = "trend_exit"
           /\ call.out.price = call.args.Close

\* a bar at LadderEntry throughout, above the stop and below the moving
\* average, was put before the three exit rules: the live engine and the
\* forward test exit on the trend rule, the backtest holds the position
C25_Witness ==
    /\ call.fn = "exit decision" /\ call.done
    /\ call.args.Low = R(LadderEntry) /\ call.args.Close = R(LadderEntry)
    /\ call.args.High = R(LadderEntry) /\ RLt(call.args.Close, call.args.MA_20)
    /\ call.out = [backtest |-> "none", live |-> "trend", forward |-> "trend"]

\* is the float a number, neither NaN nor an infinity
IsNumber(x) ==
    x.d # 0

\* C26: when the average loss over the RSI window is zero, every RSI routine
\* yields a number, neither NaN nor infinite, and the number is within one
\* point of 100 when the average gain is positive
C26_ZeroLossDefined ==
    call.fn = "RSI" /\ call.done /\ AvgLoss(call.args) = R(0)
        => \A routine \in DOMAIN call.out :
              /\ IsNumber(call.out[routine])
              /\ RLt(R(0), AvgGain(call.args))
                    => /\ RLt(R(99), call.out[routine])
                       /\ RLeq(call.out[routine], R(100))

\* the routines were run on a window of unchanged closes: the two that
\* replace or pad the zero loss give 0, the two that divide by it give NaN
C26_Witness ==
    /\ call.fn = "RSI" /\ call.done
    /\ AvgLoss(call.args) = R(0) /\ AvgGain(call.args) = R(0)
    /\ call.out.add_rsi = NaN /\ call.out.calculate_rsi = NaN
    /\ call.out.fetch_data = R(0) /\ call.out.live = R(0)

\* C27: for every finite series of closes, each defined RSI value, of every
\* routine, lies in [0, 100] inclusive
C27_RSIWithinRange ==
    call.fn = "RSI" /\ call.done
        => \A routine \in DOMAIN call.out :
              IsNumber(call.out[routine])
                  => /\ RLeq(R(0), call.out[routine])
                     /\ RLeq(call.out[routine], R(100))

\* the routines were run on a window with as many rises as falls of a dollar:
\* every one of them gave a number, the ones that divide by the plain average
\* loss gave 50
C27_Witness ==
    /\ call.fn = "RSI" /\ call.done
    /\ RLt(R(0), AvgLoss(call.args)) /\ AvgGain(call.args) = AvgLoss(call.args)
    /\ \A routine \in DOMAIN call.out : IsNumber(call.out[routine])
    /\ call.out.add_rsi = R(50) /\ call.out.live = R(50)
    /\ RLt(call.out.calculate_indicators, R(50))

\* C28: under any interleaving of the status-monitoring thread with the
\* trading loop, the monitoring thread never writes last_known_positions or
\* any other position or order state: every step of the thread leaves them as
\* they are, and every change of last_known_positions is made by a step of the
\* trading loop
C28_MonitorOnlyReads ==
    /\ [][liveMain'.monitor # liveMain.monitor
            => UNCHANGED <<last_known_positions, brokerVars, liveTrack, opens>>]_vars
    /\ [][last_known_positions' # last_known_positions
            => <<livePc', liveCycle', liveIdx'>> # <<livePc, liveCycle, liveIdx>>]_vars

\* in server mode the monitoring thread has run and ended while the trading
\* loop holds a position it entered
C28_Witness ==
    /\ prog = "run_live_trader" /\ liveMain.server
    /\ liveMain.monitor = "ended"
    /\ \E s \in Symbols : brokerPos[s].qty > 0 /\ last_known_positions[s] # None

\* C29: after a stop request (KeyboardInterrupt) has reached the live trader
\* no further entry order is submitted and the trading loop has terminated,
\* and the trades closed before the stop are handed to the final trading
\* report
C29_GracefulStop ==
    /\ [][liveMain.stop # "none"
            => /\ livePc = "exited" /\ livePc' = "exited"
               /\ \A o \in brokerOrders' \ brokerOrders : o.side # "buy"
               /\ \A s \in Symbols : fillReported'[s].buy = fillReported[s].buy]_vars
    /\ [](liveMain.finished /\ liveMain.stop # "none" /\ ClosedTrades # {}
            => liveMain.report = TradeList(ClosedTrades))

\* the trader was stopped after it had sold a position, main has finished,
\* and no trading report was made
C29_Witness ==
    /\ prog = "run_live_trader"
    /\ liveMain.stop = "run" /\ liveMain.finished
    /\ ClosedTrades # {}
    /\ liveMain.report = NoTrades

\* C30: a live trader started with --duration N > 0 stops trading once the
\* N hours have elapsed: after the end time no further pass of the trading
\* loop begins and no further order is submitted in a later pass
C30_StopsAfterDuration ==
    [][liveMain.duration > 0 /\ liveMain.expired
          => liveCycle' = liveCycle]_vars

\* the end time of a run with --duration has passed and the loop has begun a
\* later pass, the trader not having been stopped by hand
C30_Witness ==
    /\ prog = "run_live_trader"
    /\ liveMain.duration > 0 /\ liveMain.expired
    /\ liveMain.stop = "none"
    /\ liveCycle > liveMain.expired_at
    /\ livePc # "exited"

(***************************************************************************)
(* C31: in SwingTrader, whenever check_exit_signal returns a signal for a  *)
(* tracked position, the pass of manage_positions submits a sell order for *)
(* that position's own symbol with its tracked size and removes exactly    *)
(* that symbol from RiskManager.positions.                                 *)
(***************************************************************************)
C31_ExitSignalSells ==
    [][(prog = "main" /\ swingPc = "manage"
        /\ swingObs'.signal.exit_type \in {"stop_loss", "take_profit", "technical"})
          => /\ \E o \in brokerOrders' \ brokerOrders :
                   /\ o.symbol = symbols[1] /\ o.side = "sell"
                   /\ o.qty = rmPositions[symbols[1]].size
             /\ rmPositions' = [rmPositions EXCEPT ![symbols[1]] = None]]_vars

\* the stop of the tracked position was hit and check_exit_signal returned a
\* stop_loss signal; its symbol is the timestamp of the bar, under which no
\* position is tracked, and the position is still there with no sell order
C31_Witness ==
    /\ prog = "main"
    /\ swingObs.signal.exit_type = "stop_loss"
    /\ RLeq(swingObs.low, swingObs.stop_loss)
    /\ swingObs.signal.symbol \notin Symbols
    /\ RMGet(rmPositions, swingObs.signal.symbol) = None
    /\ rmPositions[symbols[1]] # None
    /\ \A o \in brokerOrders : o.side # "sell"

(***************************************************************************)
(* C32: if the submission of the order raises, or a status poll of         *)
(* execute_trade does, then execute_entry, execute_exit and execute_trade  *)
(* return False and the tracked positions are as they were before the      *)
(* call: no position is added on a failed buy, none removed on a failed    *)
(* sell.                                                                   *)
(***************************************************************************)
C32_FailedOrderLeavesPositions ==
    (/\ prog = "call" /\ call.done /\ call.fn \in ExecuteFns
     /\ \/ call.args.submit = "raise"
        \/ call.fn = "LiveTrader.execute_trade" /\ PollRaised(call.args.statuses))
      => /\ call.out.ret = FALSE
         /\ call.out.positions = call.args.positions

\* an execute_trade whose order was accepted and whose second status poll
\* raised: it returned False and tracks what it tracked before
C32_Witness ==
    /\ prog = "call" /\ call.done /\ call.fn = "LiveTrader.execute_trade"
    /\ call.args.side = "sell" /\ call.args.qty > 0 /\ call.args.submit = "ok"
    /\ call.args.statuses[1] = "new" /\ call.args.statuses[2] = "raise"
    /\ call.out.ret = FALSE /\ call.out.submitted
    /\ call.out.positions[call.args.symbol] # None

\* the sampled clock is open and the sampled time is within 09:45-15:55
InTradingWindow(sample) ==
    /\ sample.is_open
    /\ MarketOpenMinute <= sample.minute /\ sample.minute <= MarketCloseMinute

\* the engine submits an order in this step: a new open order at the broker, or
\* one it saw filled in its polls
EngineSubmits ==
    \/ brokerOrders' \ brokerOrders # {}
    \/ fillReported' # fillReported

(***************************************************************************)
(* C33: the live loop submits buy and sell orders only in passes in which  *)
(* the market clock is open and the sampled EST time lies within 09:45 to  *)
(* 15:55.  manage_positions is entered only from the start of a pass that  *)
(* sampled such a clock, the entry scan only from manage_positions of the  *)
(* same pass, orders are submitted only in these two; and a pass outside   *)
(* the window goes back to the start of the loop without running either    *)
(* and without an order.                                                   *)
(***************************************************************************)
C33_OrdersOnlyInTradingWindow ==
    /\ [][(prog = "run_live_trader" /\ livePc' = "manage" /\ livePc # "manage")
            => livePc = "cycle" /\ InTradingWindow(liveClock')]_vars
    /\ [][(prog = "run_live_trader" /\ livePc' = "scan" /\ livePc # "scan")
            => /\ livePc = "manage" /\ InTradingWindow(liveClock)
               /\ liveCycle' = liveCycle]_vars
    /\ [][(prog = "run_live_trader" /\ EngineSubmits)
            => \/ livePc = "manage" /\ InTradingWindow(liveClock)
               \/ livePc = "scan"]_vars
    /\ [][(prog = "run_live_trader" /\ liveCycle' # liveCycle
           /\ liveObs'.event \in {"closed", "early", "late"})
            => /\ livePc' = "cycle"
               /\ UNCHANGED <<brokerVars, last_known_positions, liveTrack>>]_vars

\* a pass found the market closed, or the time past 15:55, while the broker
\* held a position of the engine: the pass ended at the gate, no order open
C33_Witness ==
    /\ prog = "run_live_trader"
    /\ liveObs.event \in {"closed", "late"}
    /\ livePc = "cycle" /\ liveCycle >= 2
    /\ \E s \in Symbols : brokerPos[s].qty > 0
    /\ brokerOrders = {}

\* C34: in the live loop a symbol never has two of the engine's orders
\* outstanding at once: at most one order per symbol is open at the broker
C34_OneOutstandingOrder ==
    prog = "run_live_trader"
        => \A s \in Symbols : Cardinality({o \in brokerOrders : o.symbol = s}) <= 1

\* two buy orders for the same symbol are open at the broker: the first was not
\* seen filled within its polls, and a later pass, finding no position, bought
\* again
C34_Witness ==
    /\ prog = "run_live_trader"
    /\ liveCycle >= 2
    /\ \E o1, o2 \in brokerOrders :
          /\ o1.id # o2.id /\ o1.symbol = o2.symbol
          /\ o1.side = "buy" /\ o2.side = "buy"
    /\ \A s \in Symbols : brokerPos[s].qty = 0

(***************************************************************************)
(* C35: at the end of run_single_symbol the trades count it reports equals *)
(* wins + losses and equals the number of records it appended to           *)
(* all_trades, for every sequence of bars, one that leaves a position open *)
(* at the last bar included; and so for every result Backtester.run books. *)
(***************************************************************************)
C35_TradesAreClosedTrades ==
    /\ (prog = "call" /\ call.done /\ call.fn = "Backtester.run_single_symbol")
          => /\ call.out.trades = call.out.wins + call.out.losses
             /\ call.out.trades
                  = Len(call.out.self.all_trades) - Len(call.args.self.all_trades)
    /\ prog = "run_backtest"
          => \A i \in 1..Len(btRun.results) :
                 btRun.results[i].trades
                   = btRun.results[i].wins + btRun.results[i].losses

\* the tape ended with the position open: one trade is reported, with no win,
\* no loss and no record
C35_Witness ==
    /\ prog = "call" /\ call.done /\ call.fn = "Backtester.run_single_symbol"
    /\ call.out.trades = 1
    /\ call.out.wins = 0 /\ call.out.losses = 0
    /\ call.out.self.all_trades = <<>>
    /\ call.out.self.capital = call.args.self.capital

\* the sum of 'Profit/Loss $' over the first k records of a list of trades
RECURSIVE ProfitSum(_, _)
ProfitSum(trades, k) ==
    IF k = 0 THEN R(0) ELSE RAdd(ProfitSum(trades, k - 1), trades[k].profit)

\* capital is initial_capital plus the profits of all_trades, and every record
\* holds the capital right after its trade
CapitalIsBooked(initial_capital, cap, trades) ==
    /\ cap = RAdd(initial_capital, ProfitSum(trades, Len(trades)))
    /\ \A k \in 1..Len(trades) :
           trades[k].capital_after = RAdd(initial_capital, ProfitSum(trades, k))

(***************************************************************************)
(* C36: at every point of a Backtester's life capital = initial_capital +  *)
(* the sum of 'Profit/Loss $' over all_trades, and each record's 'Capital  *)
(* After Trade' is the capital right after that trade; also when run is    *)
(* called more than once on the same Backtester.                           *)
(***************************************************************************)
C36_CapitalIsSumOfTrades ==
    /\ prog = "run_backtest" => CapitalIsBooked(R(INITIAL_CAPITAL), capital, all_trades)
    /\ (prog = "call" /\ call.done /\ call.fn = "Backtester.run again")
          => /\ CapitalIsBooked(call.out.first.initial_capital, call.out.first.capital,
                                call.out.first.all_trades)
             /\ CapitalIsBooked(call.out.again.initial_capital, call.out.again.capital,
                                call.out.again.all_trades)

\* the first run closed a trade at its stop; the second run cleared all_trades
\* and went on from the capital the first one left, which is below
\* initial_capital plus the profits of the records it holds
C36_Witness ==
    /\ prog = "call" /\ call.done /\ call.fn = "Backtester.run again"
    /\ Len(call.out.first.all_trades) = 1
    /\ call.out.first.all_trades[1].reason = "Stop Loss"
    /\ call.out.again.initial_capital = R(INITIAL_CAPITAL)
    /\ RLt(call.out.again.capital,
           RAdd(R(INITIAL_CAPITAL),
                ProfitSum(call.out.again.all_trades, Len(call.out.again.all_trades))))

(***************************************************************************)
(* C37: with initial capital > 0 and 0 < risk_per_trade < 1 the capital of *)
(* the backtest stays strictly positive.  A position is opened with        *)
(* risk_per_trade * C at risk between entry and stop, C being the capital  *)
(* at that bar; nothing of it changes while the position is open; and the  *)
(* bar that closes it changes the capital by exactly -risk_per_trade * C   *)
(* on a stop-loss and by +2 * risk_per_trade * C on a take-profit.         *)
(***************************************************************************)
C37_CapitalStaysPositive ==
    /\ [](prog = "run_backtest" => RLt(R(0), capital))
    /\ [][(prog = "run_backtest" /\ bt.position = None /\ bt'.position # None)
            => /\ RMul(bt'.position_size, RSub(bt'.position, bt'.trailing_stop))
                    = RMul(risk_per_trade, capital)
               /\ capital' = capital]_vars
    /\ [][(prog = "run_backtest" /\ bt.position # None /\ bt'.position # None)
            => /\ capital' = capital
               /\ bt'.position = bt.position /\ bt'.position_size = bt.position_size
               /\ bt'.trailing_stop = bt.trailing_stop]_vars
    /\ [][(prog = "run_backtest" /\ all_trades' # all_trades)
            => LET trade == all_trades'[Len(all_trades')]
                   at_risk == RMul(risk_per_trade, capital)
               IN  /\ trade.reason = "Stop Loss" => capital' = RSub(capital, at_risk)
                   /\ trade.reason = "Take Profit"
                        => capital' = RAdd(capital, RMul(R(2), at_risk))]_vars

\* a run that closed one trade at its stop and then one at its take profit:
\* the capital is 1000 * 0.97 * 1.06
C37_Witness ==
    /\ prog = "run_backtest"
    /\ Len(all_trades) = 2
    /\ all_trades[1].reason = "Stop Loss" /\ all_trades[2].reason = "Take Profit"
    /\ capital = RMul(R(INITIAL_CAPITAL), RMul(Rat(97, 100), Rat(106, 100)))

\* the engine buys in this step: a new buy order at the broker, or a buy it
\* saw filled in its polls
EngineBuys(s) ==
    \/ \E o \in brokerOrders' \ brokerOrders : o.symbol = s /\ o.side = "buy"
    \/ fillReported'[s].buy # fillReported[s].buy

(***************************************************************************)
(* C38: a bar of the backtest that opens a position does not test it for   *)
(* exit, and a bar that closes one does not open another; and a pass of    *)
(* the live loop in which manage_positions decided to exit a symbol's      *)
(* position, which is closed when the entry scan gets to the symbol, does  *)
(* not buy that symbol in its entry scan.                                  *)
(***************************************************************************)
C38_NoExitAndEntryTogether ==
    /\ [][(prog = "run_backtest" /\ btI' = btI + 1)
            => /\ (bt.position = None /\ bt'.position # None)
                    => all_trades' = all_trades /\ capital' = capital
               /\ all_trades' # all_trades
                    => bt'.position = None /\ bt'.trades = bt.trades]_vars
    /\ [][(/\ prog = "run_live_trader" /\ livePc = "scan"
           /\ liveObs.event = "managed" /\ liveObs.exit # "none"
           /\ brokerPos[symbols[liveIdx]].qty = 0)
            => ~EngineBuys(symbols[liveIdx])]_vars

\* the second pass sold the symbol's position in manage_positions and bought
\* the symbol again in its entry scan: by the end of the pass the engine has
\* seen one sale and one purchase filled, and the symbol is held
C38_Witness ==
    /\ prog = "run_live_trader"
    /\ livePc = "cycle" /\ liveCycle = 2
    /\ \E s \in Symbols :
          /\ fillReported[s].sell = 1 /\ fillReported[s].buy = 1
          /\ brokerPos[s].qty > 0
          /\ s \notin livePositions

(***************************************************************************)
(* C39: in the backtest the bars at which a symbol enters and exits, the   *)
(* entry prices, the exit prices and the exit reasons depend only on the   *)
(* symbol's own bars: run_single_symbol decides the same over the same     *)
(* tape for every capital and risk_per_trade of the Backtester, and after  *)
(* another symbol was processed before it.                                 *)
(***************************************************************************)
C39_DecisionsFromOwnBars ==
    (prog = "call" /\ call.done /\ call.fn = "Backtester.run_single_symbol")
      => \A other \in SingleSymbolSelves :
             /\ run_single_symbol(other, call.args.tape).decisions = call.out.decisions
             /\ run_single_symbol(BTReplaySymbol(other, call.args.tape),
                                  call.args.tape).decisions = call.out.decisions

\* a tape with an entry and a stop-loss exit, replayed with a capital of one
\* dollar: the decisions are those of the run with the script's capital, and
\* the size of the position is not
C39_Witness ==
    /\ prog = "call" /\ call.done /\ call.fn = "Backtester.run_single_symbol"
    /\ call.args.self.capital = R(SmallCapital)
    /\ Len(call.out.self.all_trades) = 1
    /\ \E i \in 1..Len(call.out.decisions) :
          /\ call.out.decisions[i].kind = "exit"
          /\ call.out.decisions[i].reason = "Stop Loss"
    /\ \E other \in SingleSymbolSelves :
          /\ other.capital = R(INITIAL_CAPITAL)
          /\ run_single_symbol(other, call.args.tape).self.all_trades[1].size
               # call.out.self.all_trades[1].size

====
